---- MODULE Spec2Model ----
(***************************************************************************)
(* A model of folly/futures/Future-inl.h: the Core handshake between a     *)
(* Promise and a Future/SemiFuture, the then/defer plumbing                *)
(* (thenImplementation, CoreCallbackState), the DeferredExecutor           *)
(* placeholder and the blocking bridge (wait / wait(dur)).                 *)
(*                                                                         *)
(* Threads are call stacks of frames; every step of a thread is one        *)
(* access to shared memory (an atomic load, a compare-exchange, a store)   *)
(* together with the thread-local code around it.                          *)
(***************************************************************************)
EXTENDS Integers, Sequences, FiniteSets, TLC

\* ---------------------------------------------------------------- bounds
\* longest chain of defer() calls built on the root SemiFuture
MaxDefer == 2
\* number of timed waits (wait(dur)) the consumer may start
MaxTimedWaits == 1
\* number of fulfilment attempts on the root Promise
MaxFulfil == 2
\* longest chain of then / onError calls built on the root Future
MaxThen == 3
\* number of input futures handed to a collect* / reduce call
MaxInputs == 2
\* size of the collection handed to window
MaxItems == 3
\* largest n given to times
MaxTimes == 2

\* ---------------------------------------------------------------- universe
\* the threads that fulfil the inputs of a combinator, one per input
InNames == <<"in1", "in2", "in3", "in4">>
Inputs == 1 .. MaxInputs
InThreads == {InNames[i] : i \in Inputs}

Workers == {"prod", "prodQ", "cons", "exec"}
Threads == Workers \cup InThreads \cup {"timer"}

\* Chain cores are 1 .. MaxDefer + 1; QC is the Core of the Promise whose
\* Future / SemiFuture a deferred function may return (a nested future).
QC == MaxDefer + 2
Larger(a, b) == IF a > b THEN a ELSE b
Cores == 1 .. Larger(Larger(MaxThen + 1, QC), MaxInputs)

\* Try<T>: a value, an error, or nothing yet.
NoTry == [k |-> "none", v |-> 0, e |-> ""]
Val(n) == [k |-> "val", v |-> n, e |-> ""]
Err(x) == [k |-> "err", v |-> 0, e |-> x]

\* The callback stored in a Core.
NoCb == [kind |-> "none", isTry |-> FALSE, fn |-> "none", to |-> 0]
ThenCb(isTry, fn, to) == [kind |-> "then", isTry |-> isTry, fn |-> fn, to |-> to]
FwdCb(to) == [kind |-> "fwd", isTry |-> TRUE, fn |-> "none", to |-> to]
BatonCb == [kind |-> "baton", isTry |-> TRUE, fn |-> "none", to |-> 0]
\* whileDo: future.then([predicate, thunk]() { return whileDo(...); })
WhileCb(k) == [kind |-> "while", isTry |-> FALSE, fn |-> "whileDo", to |-> k]
\* mapSetCallback: [func, i](Try<T>&& t) { func(i, std::move(t)); }
AggCb(op, i) == [kind |-> "agg", isTry |-> TRUE, fn |-> op, to |-> i]

FreshCore ==
  [state |-> "Start", result |-> NoTry, cb |-> NoCb, exec |-> "none",
   handler |-> "none", interrupt |-> ""]

\* A stack frame: op the function, pc the place in it, c a Core (or the
\* executor argument), st the local copy of the DeferredExecutor state (or a
\* return value), bt the local baton.
Frame(op, pc, c, st, bt) == [op |-> op, pc |-> pc, c |-> c, st |-> st, bt |-> bt]

VARIABLES
  cores,   \* Core -> [state, result, cb, exec]
  de,      \* the DeferredExecutor: [alloc, state, func, executor, baton, freed]
  stk,     \* thread -> its call stack (top is the last element)
  queue,   \* tasks added to the real executor E (0: runAndDestroy, c: Core c's callback)
  sf,      \* the consumer's handle: [kind, core, n, nested, tw, nb, via, detached]
  prom,    \* the Promises: root and Q
  posted,  \* batons that have been posted
  obs,     \* observations (history variables)
  agg      \* the shared context of a combinator and its result Promise

vars == <<cores, de, stk, queue, sf, prom, posted, obs, agg>>

\* ---------------------------------------------------------------- helpers
Top(t) == stk[t][Len(stk[t])]
At(t, op, pc) == stk[t] /= <<>> /\ Top(t).op = op /\ Top(t).pc = pc
Idle(t) == stk[t] = <<>>
PopS(s) == SubSeq(s, 1, Len(s) - 1)
Popped(t) == [stk EXCEPT ![t] = PopS(@)]
Replaced(t, f) == [stk EXCEPT ![t] = Append(PopS(@), f)]
Pushed(t, f) == [stk EXCEPT ![t] = Append(@, f)]
\* replace the top frame by f and call g on top of it
ReplacedPushed(t, f, g) == [stk EXCEPT ![t] = Append(Append(PopS(@), f), g)]
\* return: pop the top frame and hand value r to the caller's frame
Returned(t, r) ==
  [stk EXCEPT ![t] =
     IF Len(@) >= 2
       THEN Append(SubSeq(@, 1, Len(@) - 2), [@[Len(@) - 1] EXCEPT !.st = r])
       ELSE PopS(@)]
OpsOf(t) == {stk[t][i].op : i \in 1 .. Len(stk[t])}

\* Core::hasResult
hasResult(c) == cores[c].state \in {"OnlyResult", "Done"}

\* Is the user function of a continuation invoked on input t?  The lambda
\* of thenValue calls t.get<false>() first, which throws on an error; the
\* lambda of onError<UserError> calls it on a matching error only.
UserRuns(fn, t) ==
  CASE fn = "wrapVal" -> t.k = "val"
    [] fn \in {"onErr", "onErrFut"} -> t.k = "err" /\ t.e = "UserError"
    [] OTHER -> TRUE

\* A continuation whose Promise is fulfilled before its function has
\* produced anything.
InvokeNothing(fn, t) == NoTry

\* The Try a continuation produces from its input (makeTryWith around the
\* invocation): the user functions add 1 to a value; "thr" throws; "val"
\* and "wrapVal" rethrow an input error (t.value()); "try" and a matching
\* "onErr" recover from it with 0 ("onErrFut" with makeFuture(0), which is
\* forwarded at once); a non-matching "onErr" forwards t; "id"
\* (the lambda of waitViaImpl) returns its argument.
Invoke(fn, t) ==
  CASE fn = "thr" -> Err("UserError")
    [] fn = "try" -> IF t.k = "val" THEN Val(t.v + 1) ELSE Val(0)
    [] fn \in {"onErr", "onErrFut"} -> IF UserRuns(fn, t) THEN Val(0) ELSE t
    [] fn = "id" -> t
    [] OTHER -> IF t.k = "val" THEN Val(t.v + 1) ELSE t

\* ---------------------------------------------------------------- Core
\* The state word after the producer's CAS: Start -> OnlyResult, and the
\* second writer (OnlyCallback) -> Done.
AfterSetResult(s) == IF s = "Start" THEN "OnlyResult" ELSE "Done"

\* A consumer that forgets the OnlyResult -> Done transition.
AfterSetCallbackNoDone(s) == "OnlyCallback"

\* The state word after the consumer's CAS: Start -> OnlyCallback, and the
\* second writer (OnlyResult) -> Done.
AfterSetCallback(s) == IF s = "Start" THEN "OnlyCallback" ELSE "Done"

\* A dispatch that runs every continuation on the completing thread.
DoCallbackInline(t, c) == Replaced(t, Frame("runcb", "run", c, "", 0))

\* Dispatch by the writer that reached Done: onto the bound executor, into
\* the DeferredExecutor placeholder, or inline when none is bound.
DoCallbackStk(t, c) ==
  LET x == cores[c].exec IN
  IF x = "E" THEN Popped(t)
  ELSE IF x = "DE" THEN Replaced(t, Frame("add", "load", c, "", 0))
  ELSE Replaced(t, Frame("runcb", "run", c, "", 0))

DoCallbackQueue(c) == IF cores[c].exec = "E" THEN Append(queue, c) ELSE queue

\* Core::setResult, the CAS on the state word (the result itself is stored
\* by the caller's step, invisible until this CAS publishes it)
SetResultCas(t) ==
  /\ At(t, "setResult", "cas")
  /\ LET c == Top(t).c
         s == AfterSetResult(cores[c].state) IN
     /\ cores' = [cores EXCEPT ![c].state = s]
     /\ IF s = "Done"
          THEN /\ stk' = DoCallbackStk(t, c)
               /\ queue' = DoCallbackQueue(c)
               /\ obs' = [obs EXCEPT !.done[c] = @ + 1, !.writers[c] = @ + 1,
                                     !.route[c] = cores[c].exec]
          ELSE /\ stk' = Popped(t)
               /\ obs' = [obs EXCEPT !.writers[c] = @ + 1]
               /\ UNCHANGED queue
  /\ UNCHANGED <<de, sf, prom, posted, agg>>

\* FutureBase::setCallback_ -> Core::setCallback, the CAS on the state word
SetCallbackCas(t) ==
  /\ At(t, "setCallback", "cas")
  /\ LET c == Top(t).c
         s == AfterSetCallback(cores[c].state) IN
     /\ cores' = [cores EXCEPT ![c].state = s]
     /\ IF s = "Done"
          THEN /\ stk' = DoCallbackStk(t, c)
               /\ queue' = DoCallbackQueue(c)
               /\ obs' = [obs EXCEPT !.done[c] = @ + 1, !.writers[c] = @ + 1,
                                     !.route[c] = cores[c].exec]
          ELSE /\ stk' = Popped(t)
               /\ obs' = [obs EXCEPT !.writers[c] = @ + 1]
               /\ UNCHANGED queue
  /\ UNCHANGED <<de, sf, prom, posted, agg>>

\* A Promise that accepts every fulfilment.
SetTryThrowsNever(c) == FALSE

\* Promise::setTry / setException on Core c: PromiseAlreadySatisfied when the
\* Core already holds a result, else store the result and enter setResult.
SetTryThrows(c) == hasResult(c)
SetTryCores(c, x) ==
  IF SetTryThrows(c) THEN cores ELSE [cores EXCEPT ![c].result = x]
SetTryStk(t, c) ==
  IF SetTryThrows(c) THEN Popped(t)
  ELSE Replaced(t, Frame("setResult", "cas", c, "", 0))
ThrownBy(t, c) ==
  IF SetTryThrows(c) THEN {<<t, "PromiseAlreadySatisfied">>} ELSE {}

\* a chaining that leaves a SemiFuture without an executor
chainExecutorAsIs(e) == e

\* chainExecutor(e, SemiFuture): the executor of p's Core, Inline if unset
chainExecutor(e) == IF e = "none" THEN "Inline" ELSE e

\* the user function returns the Future / the SemiFuture of another Promise
Nested(kind) == kind \in {"fut", "semi"}

\* A continuation that is handed an error as if it were a value.
ShortCircuitsNever(cb, r) == FALSE

\* thenImplementation: `if (!isTry && t.hasException())`, the continuation
\* takes T and the input is an error
ShortCircuits(cb, r) == ~cb.isTry /\ r.k = "err"

\* A waiting lambda that lets its Promise go unfulfilled.
ForwardedNothing(r) == Err("BrokenPromise")

\* what the lambda of waitImpl(f, dur) hands to the new Promise:
\* promise.setTry(std::move(t))
ForwardedTry(r) == r

\* The callback of Core c is invoked with the Core's result
\* (the lambdas of thenImplementation, the forwarding lambda p2.setTry and
\* the baton-posting lambda of waitImpl).
RunCallback(t) ==
  /\ At(t, "runcb", "run")
  /\ LET c == Top(t).c
         cb == cores[c].cb
         r == cores[c].result
         ran == [obs EXCEPT !.cbRuns[c] = @ + 1, !.cbIn[c] = r]
         inv == [ran EXCEPT !.fnRuns[c] = @ + 1, !.fnIn[c] = r,
                            !.fnCtx = @ \cup {[c |-> c, th |-> t, ops |-> OpsOf(t)]}]
     IN
     CASE cb.kind = "then" /\ ShortCircuits(cb, r) ->
            \* value-taking continuation, input is an error: forward it
            /\ cores' = SetTryCores(cb.to, r)
            /\ stk' = SetTryStk(t, cb.to)
            /\ obs' = [ran EXCEPT !.thrown = @ \cup ThrownBy(t, cb.to)]
            /\ UNCHANGED posted
       [] cb.kind = "then" /\ ~ShortCircuits(cb, r) /\ ~Nested(cb.fn) ->
            /\ cores' = SetTryCores(cb.to, Invoke(cb.fn, r))
            /\ stk' = SetTryStk(t, cb.to)
            /\ obs' = [(IF UserRuns(cb.fn, r) THEN inv ELSE ran)
                         EXCEPT !.thrown = @ \cup ThrownBy(t, cb.to)]
            /\ UNCHANGED posted
       [] cb.kind = "then" /\ ~ShortCircuits(cb, r) /\ Nested(cb.fn) ->
            \* the function returned the Future / SemiFuture of Q: chain it
            \* through chainExecutor and forward its result into p
            /\ cores' = [cores EXCEPT
                 ![QC].exec = IF cb.fn = "semi"
                                THEN chainExecutor(cores[cb.to].exec) ELSE @,
                 ![QC].cb = FwdCb(cb.to)]
            /\ stk' = Replaced(t, Frame("setCallback", "cas", QC, "", 0))
            /\ obs' = inv
            /\ UNCHANGED posted
       [] cb.kind = "fwd" ->
            /\ cores' = SetTryCores(cb.to, r)
            /\ stk' = SetTryStk(t, cb.to)
            /\ obs' = [ran EXCEPT !.thrown = @ \cup ThrownBy(t, cb.to)]
            /\ UNCHANGED posted
       [] cb.kind = "while" ->
            \* the continuation of whileDo takes no argument: an error goes
            \* to its Promise, else whileDo is called again and the Future
            \* it returns is forwarded to the Promise
            /\ stk' = IF r.k = "err"
                        THEN Replaced(t, Frame("whileDo", "fail", c, "", 0))
                        ELSE ReplacedPushed(t, Frame("whileDo", "fwd", c, "", 0),
                                             Frame("whileDo", "pred", c + 1, "", 0))
            /\ obs' = IF r.k = "err" THEN ran ELSE inv
            /\ UNCHANGED <<cores, posted>>
       [] cb.kind = "agg" ->
            \* the lambda of mapSetCallback calls func(i, t)
            /\ stk' = Replaced(t, Frame("agg", "gate", c, "", 0))
            /\ obs' = ran
            /\ UNCHANGED <<cores, posted>>
       [] cb.kind = "fwdPost" ->
            \* promise.setTry(t), then baton->post()
            /\ cores' = SetTryCores(c + 1, ForwardedTry(r))
            /\ stk' = ReplacedPushed(t, Frame("fwdPost", "post", c, "", cb.to),
                                      Frame("setResult", "cas", c + 1, "", 0))
            /\ obs' = ran
            /\ UNCHANGED posted
       [] cb.kind = "baton" ->
            /\ posted' = posted \cup {cb.to}
            /\ stk' = Popped(t)
            /\ obs' = ran
            /\ UNCHANGED cores
  /\ UNCHANGED <<de, queue, sf, prom, agg>>

\* A continuation state whose destructor lets the Promise go unfulfilled.
DestroyCallbackKeepsPromise(t) ==
  /\ At(t, "destroy", "run")
  /\ obs' = [obs EXCEPT !.cbDestroyed = @ \cup {Top(t).c}]
  /\ stk' = Popped(t)
  /\ UNCHANGED <<cores, de, queue, sf, prom, posted, agg>>

\* The function object holding Core c's callback is destroyed without having
\* been invoked: ~CoreCallbackState steals the Promise while it is
\* unfulfilled, and the dying Promise fulfils its Core with BrokenPromise.
DestroyCallback(t) ==
  /\ At(t, "destroy", "run")
  /\ LET c == Top(t).c
         cb == cores[c].cb IN
     /\ obs' = [obs EXCEPT !.cbDestroyed = @ \cup {c}]
     /\ IF cb.kind \in {"then", "fwd"} /\ ~hasResult(cb.to)
          THEN /\ cores' = [cores EXCEPT ![cb.to].result = Err("BrokenPromise")]
               /\ stk' = Replaced(t, Frame("setResult", "cas", cb.to, "", 0))
          ELSE /\ stk' = Popped(t)
               /\ UNCHANGED cores
  /\ UNCHANGED <<de, queue, sf, prom, posted, agg>>

\* ---------------------------------------------------------------- DeferredExecutor
\* DeferredExecutor::add(func), entry: load state_; in HAS_FUNCTION run func
\* inline, else store it in func_.  On a freed placeholder the load is a
\* use after free: the thread crashes or goes on with the stale word.
AddLoad(t) ==
  /\ At(t, "add", "load")
  /\ \E outcome \in (IF de.freed > 0 THEN {"crash", "stale"} ELSE {"ok"}) :
       /\ obs' = [obs EXCEPT !.uaf = @ \/ (outcome /= "ok")]
       /\ IF outcome = "crash"
            THEN /\ stk' = [stk EXCEPT ![t] = <<>>]
                 /\ UNCHANGED de
            ELSE IF de.state = "HAS_FUNCTION"
              THEN /\ stk' = Replaced(t, Frame("runcb", "run", Top(t).c, "", 0))
                   /\ UNCHANGED de
              ELSE /\ de' = [de EXCEPT !.func = Top(t).c]
                   /\ stk' = Replaced(t, [Top(t) EXCEPT !.pc = "loop", !.st = de.state])
  /\ UNCHANGED <<cores, queue, sf, prom, posted, agg>>

\* An add that writes HAS_FUNCTION into state_ of a DETACHED placeholder.
AddOnDetachedStores(t) ==
  /\ de' = [de EXCEPT !.func = 0, !.state = "HAS_FUNCTION"]
  /\ stk' = ReplacedPushed(t, [Top(t) EXCEPT !.pc = "delete"],
                            Frame("destroy", "run", de.func, "", 0))

\* add on a DETACHED placeholder: func_ = nullptr (the function is dropped,
\* never run), then delete this.  The local `state = HAS_FUNCTION` does not
\* touch state_.
AddOnDetached(t) ==
  /\ de' = [de EXCEPT !.func = 0]
  /\ stk' = ReplacedPushed(t, [Top(t) EXCEPT !.pc = "delete"],
                            Frame("destroy", "run", de.func, "", 0))

\* add on a placeholder that has its executor: store HAS_FUNCTION and
\* enqueue runAndDestroy on the stored executor.
AddOnExecutor(t) ==
  /\ de' = [de EXCEPT !.state = "HAS_FUNCTION"]
  /\ stk' = IF de.executor = "E" THEN Popped(t)
            ELSE Replaced(t, Frame("runAndDestroy", "run", 0, "", 0))
  /\ queue' = IF de.executor = "E" THEN Append(queue, 0) ELSE queue
  /\ obs' = [obs EXCEPT !.enq = @ + 1, !.stored = TRUE]

\* the compare_exchange of add's loop: old -> HAS_FUNCTION
AddCasStep(t) ==
  IF de.state = Top(t).st
    THEN /\ de' = [de EXCEPT !.state = "HAS_FUNCTION"]
         /\ stk' = IF Top(t).bt /= 0
                     THEN Replaced(t, [Top(t) EXCEPT !.pc = "post"])
                     ELSE Popped(t)
         /\ obs' = [obs EXCEPT !.stored = TRUE]
    ELSE /\ stk' = Replaced(t, [Top(t) EXCEPT !.pc = "loop", !.st = de.state])
         /\ UNCHANGED <<de, obs>>

\* DeferredExecutor::add, one turn of the do-while loop on the local state
AddLoop(t) ==
  /\ At(t, "add", "loop")
  /\ LET st == Top(t).st IN
     CASE st = "HAS_EXECUTOR" -> AddOnExecutor(t)
       [] st = "DETACHED" -> AddOnDetached(t) /\ UNCHANGED <<queue, obs>>
       [] st = "HAS_BATON" ->
            \* baton = baton_.copy()
            /\ stk' = Replaced(t, [Top(t) EXCEPT !.pc = "cas", !.bt = de.baton])
            /\ UNCHANGED <<de, queue, obs>>
       [] st = "EMPTY" -> AddCasStep(t) /\ UNCHANGED queue
       [] OTHER ->
            \* assert(state == EMPTY || state == HAS_BATON) fails
            /\ stk' = [stk EXCEPT ![t] = <<>>]
            /\ obs' = [obs EXCEPT !.assertFail = TRUE]
            /\ UNCHANGED <<de, queue>>
  /\ UNCHANGED <<cores, sf, prom, posted, agg>>

\* add: the compare_exchange after the baton was copied
AddCas(t) ==
  /\ At(t, "add", "cas")
  /\ AddCasStep(t)
  /\ UNCHANGED <<cores, queue, sf, prom, posted, agg>>

\* add: baton->post() after the compare_exchange
AddPost(t) ==
  /\ At(t, "add", "post")
  /\ posted' = posted \cup {Top(t).bt}
  /\ stk' = Popped(t)
  /\ UNCHANGED <<cores, de, queue, sf, prom, obs, agg>>

\* `delete this` at the end of add (DETACHED), detach (HAS_FUNCTION) and
\* runAndDestroy
DeleteThis(t) ==
  /\ stk[t] /= <<>>
  /\ Top(t).pc = "delete"
  /\ Top(t).op \in {"add", "detach", "runAndDestroy"}
  /\ de' = [de EXCEPT !.freed = @ + 1]
  /\ stk' = Popped(t)
  /\ UNCHANGED <<cores, queue, sf, prom, posted, agg, obs>>

\* A setExecutor that returns without enqueueing the function it found.
SetExecutorOnFunctionForget(t) ==
  /\ stk' = Popped(t)
  /\ UNCHANGED <<queue, obs>>

\* setExecutor finding HAS_FUNCTION: executor_->add(runAndDestroy), return
SetExecutorOnFunction(t) ==
  /\ stk' = IF de.executor = "E" THEN Popped(t)
            ELSE Replaced(t, Frame("runAndDestroy", "run", 0, "", 0))
  /\ queue' = IF de.executor = "E" THEN Append(queue, 0) ELSE queue
  /\ obs' = [obs EXCEPT !.enq = @ + 1]

\* DeferredExecutor::setExecutor, the loop (executor_ was stored and state_
\* loaded by the caller's step)
SetExecutorLoop(t) ==
  /\ At(t, "setExecutor", "loop")
  /\ IF Top(t).st = "HAS_FUNCTION"
       THEN /\ SetExecutorOnFunction(t)
            /\ UNCHANGED de
       ELSE /\ IF de.state = Top(t).st
                 THEN /\ de' = [de EXCEPT !.state = "HAS_EXECUTOR"]
                      /\ stk' = Popped(t)
                 ELSE /\ stk' = Replaced(t, [Top(t) EXCEPT !.st = de.state])
                      /\ UNCHANGED de
            /\ UNCHANGED <<queue, obs>>
  /\ UNCHANGED <<cores, sf, prom, posted, agg>>

\* DeferredExecutor::runAndDestroy: func_(), then delete this
RunAndDestroy(t) ==
  /\ At(t, "runAndDestroy", "run")
  /\ stk' = ReplacedPushed(t, [Top(t) EXCEPT !.pc = "delete"],
                            Frame("runcb", "run", de.func, "", 0))
  /\ obs' = [obs EXCEPT !.radRuns = @ + 1,
                        !.radBy = @ \cup {[th |-> t, ops |-> OpsOf(t)]}]
  /\ UNCHANGED <<cores, de, queue, sf, prom, posted, agg>>

\* DeferredExecutor::detach, the loop
DetachLoop(t) ==
  /\ At(t, "detach", "loop")
  /\ IF Top(t).st = "HAS_FUNCTION"
       THEN /\ de' = [de EXCEPT !.func = 0]
            /\ stk' = ReplacedPushed(t, [Top(t) EXCEPT !.pc = "delete"],
                                      Frame("destroy", "run", de.func, "", 0))
       ELSE IF de.state = Top(t).st
         THEN /\ de' = [de EXCEPT !.state = "DETACHED"]
              /\ stk' = Popped(t)
         ELSE /\ stk' = Replaced(t, [Top(t) EXCEPT !.st = de.state])
              /\ UNCHANGED de
  /\ UNCHANGED <<cores, queue, sf, prom, posted, agg, obs>>

\* DeferredExecutor::wait() and wait(Duration), the first loop: return when
\* the function is there, else EMPTY -> HAS_BATON
WaitLoop(t) ==
  /\ stk[t] /= <<>>
  /\ Top(t).op \in {"wait", "waitDur"}
  /\ Top(t).pc = "loop"
  /\ IF Top(t).st = "HAS_FUNCTION"
       THEN /\ stk' = Returned(t, "true")
            /\ UNCHANGED de
       ELSE IF de.state = Top(t).st
         THEN /\ de' = [de EXCEPT !.state = "HAS_BATON"]
              /\ stk' = Replaced(t, [Top(t) EXCEPT !.pc = "block"])
         ELSE /\ stk' = Replaced(t, [Top(t) EXCEPT !.st = de.state])
              /\ UNCHANGED de
  /\ UNCHANGED <<cores, queue, sf, prom, posted, agg, obs>>

\* baton->wait() / baton->try_wait_for(duration) returning true
WaitWoken(t) ==
  /\ stk[t] /= <<>>
  /\ Top(t).op \in {"wait", "waitDur"}
  /\ Top(t).pc = "block"
  /\ Top(t).bt \in posted
  /\ stk' = Returned(t, "true")
  /\ UNCHANGED <<cores, de, queue, sf, prom, posted, agg, obs>>

\* try_wait_for(duration) timing out: reload state_
WaitTimeout(t) ==
  /\ At(t, "waitDur", "block")
  /\ Top(t).bt \notin posted
  /\ stk' = Replaced(t, [Top(t) EXCEPT !.pc = "tloop", !.st = de.state])
  /\ UNCHANGED <<cores, de, queue, sf, prom, posted, agg, obs>>

\* A timed-out wait that stores EMPTY without comparing.
RevertStore(t) == TRUE

\* the compare_exchange of the timed-out wait succeeds when state_ still
\* holds the value loaded
RevertCas(t) == de.state = Top(t).st

\* wait(Duration) after the timeout: true when the function has arrived,
\* else HAS_BATON -> EMPTY and false
WaitRevert(t) ==
  /\ At(t, "waitDur", "tloop")
  /\ IF Top(t).st = "HAS_FUNCTION"
       THEN /\ stk' = Returned(t, "true")
            /\ UNCHANGED <<de, obs>>
       ELSE IF RevertCas(t)
         THEN /\ de' = [de EXCEPT !.state = "EMPTY"]
              /\ stk' = Returned(t, "false")
              /\ obs' = [obs EXCEPT !.reverts = @ + 1]
         ELSE /\ stk' = Replaced(t, [Top(t) EXCEPT !.st = de.state])
              /\ UNCHANGED <<de, obs>>
  /\ UNCHANGED <<cores, queue, sf, prom, posted, agg>>

\* ---------------------------------------------------------------- SemiFuture
\* SemiFuture::defer(func): materialise the DeferredExecutor on first use,
\* Future(core_).then(func) through thenImplementation (new Promise and Core
\* carrying this Core's executor, callback installed on this Core), and carry
\* the placeholder on the returned SemiFuture.
Defer(kind) ==
  /\ Idle("cons")
  /\ sf.kind = "semi"
  /\ sf.n < MaxDefer
  /\ Nested(kind) => ~sf.nested
  /\ cores[sf.core].cb.kind = "none"
  /\ cores[sf.core].exec = "none" => ~de.alloc
  /\ LET k == sf.core IN
     /\ de' = [de EXCEPT !.alloc = TRUE]
     /\ cores' = [cores EXCEPT ![k].exec = "DE",
                               ![k].cb = ThenCb(TRUE, kind, k + 1),
                               ![k + 1].exec = "DE"]
     /\ stk' = Pushed("cons", Frame("setCallback", "cas", k, "", 0))
     /\ sf' = [sf EXCEPT !.core = k + 1, !.n = @ + 1,
                         !.nested = @ \/ Nested(kind)]
  /\ UNCHANGED <<queue, prom, posted, agg, obs>>

\* A via that accepts a null executor.
ViaThrowsNever(e) == FALSE

\* SemiFuture::via: `if (!executor) throw_exception<FutureNoExecutor>()`
ViaThrows(e) == e = "null"

\* SemiFuture::via(executor) (toUnsafeFuture: the inline executor): hand the
\* executor to the placeholder if there is one, ...
Via(e) ==
  /\ Idle("cons")
  /\ sf.kind = "semi"
  /\ IF ViaThrows(e)
       THEN /\ obs' = [obs EXCEPT !.thrown = @ \cup {<<"cons", "NoExecutor">>}]
            /\ UNCHANGED <<cores, de, stk, sf>>
       ELSE IF cores[sf.core].exec = "DE"
       THEN /\ de' = [de EXCEPT !.executor = e]
            /\ stk' = [stk EXCEPT !["cons"] =
                         <<Frame("sfVia", "bind", 0, "", 0),
                           Frame("setExecutor", "loop", 0, de.state, 0)>>]
            /\ sf' = [sf EXCEPT !.via = e]
            /\ UNCHANGED <<cores, obs>>
       ELSE /\ cores' = [cores EXCEPT ![sf.core].exec = e]
            /\ sf' = [sf EXCEPT !.via = e, !.kind = "future"]
            /\ UNCHANGED <<de, stk, obs>>
  /\ UNCHANGED <<queue, prom, posted, agg>>

\* ... then newFuture.setExecutor(executor) on the Core
SfViaBind(t) ==
  /\ At(t, "sfVia", "bind")
  /\ cores' = [cores EXCEPT ![sf.core].exec = sf.via]
  /\ sf' = [sf EXCEPT !.kind = "future"]
  /\ stk' = Popped(t)
  /\ UNCHANGED <<de, queue, prom, posted, agg, obs>>

\* what a wait that returns reports: its result, isReady() at the return,
\* the length of the deferred chain and the baton it used
WaitRet(op, ret) ==
  [op |-> op, ret |-> ret, ready |-> hasResult(sf.core), n |-> sf.n, b |-> sf.nb]

\* SemiFuture::wait(): with a placeholder deferredExecutor->wait() (here its
\* entry: load state_, baton_ = baton); without one waitImpl: return if
\* ready, else install the baton-posting callback and block.
Wait ==
  /\ Idle("cons")
  /\ sf.kind = "semi"
  /\ cores[sf.core].cb.kind = "none"
  /\ IF cores[sf.core].exec = "DE"
       THEN /\ de' = [de EXCEPT !.baton = sf.nb + 1]
            /\ stk' = [stk EXCEPT !["cons"] =
                         <<Frame("sfWait", "ret", 0, "", 0),
                           Frame("wait", "loop", 0, de.state, sf.nb + 1)>>]
            /\ sf' = [sf EXCEPT !.nb = @ + 1]
            /\ UNCHANGED <<cores, obs>>
       ELSE IF hasResult(sf.core)
         THEN /\ obs' = [obs EXCEPT !.waitRet = @ \cup {WaitRet("waitImpl", "true")}]
              /\ UNCHANGED <<cores, de, stk, sf>>
         ELSE /\ cores' = [cores EXCEPT ![sf.core].cb =
                             [BatonCb EXCEPT !.to = sf.nb + 1]]
              /\ stk' = [stk EXCEPT !["cons"] =
                           <<Frame("waitImpl", "block", 0, "", sf.nb + 1),
                             Frame("setCallback", "cas", sf.core, "", 0)>>]
              /\ sf' = [sf EXCEPT !.nb = @ + 1]
              /\ UNCHANGED <<de, obs>>
  /\ UNCHANGED <<queue, prom, posted, agg>>

\* waitImpl: baton.wait() returns
WaitImplWoken(t) ==
  /\ At(t, "waitImpl", "block")
  /\ Top(t).bt \in posted
  /\ stk' = Popped(t)
  /\ obs' = [obs EXCEPT !.waitRet = @ \cup {WaitRet("waitImpl", "true")}]
  /\ UNCHANGED <<cores, de, queue, sf, prom, posted, agg>>

\* SemiFuture::wait(Duration) with a placeholder: deferredExecutor->wait(dur)
WaitDur ==
  /\ Idle("cons")
  /\ sf.kind = "semi"
  /\ sf.tw < MaxTimedWaits
  /\ cores[sf.core].exec = "DE"
  /\ de' = [de EXCEPT !.baton = sf.nb + 1]
  /\ stk' = [stk EXCEPT !["cons"] =
               <<Frame("sfWaitDur", "ret", 0, "", 0),
                 Frame("waitDur", "loop", 0, de.state, sf.nb + 1)>>]
  /\ sf' = [sf EXCEPT !.nb = @ + 1, !.tw = @ + 1]
  /\ UNCHANGED <<cores, queue, prom, posted, agg, obs>>

\* SemiFuture::wait / wait(dur) after the placeholder's wait returned:
\* on true deferredExecutor->runAndDestroy(), on false (timed out) return
SfWaitRet(t) ==
  /\ stk[t] /= <<>>
  /\ Top(t).op \in {"sfWait", "sfWaitDur"}
  /\ Top(t).pc = "ret"
  /\ IF Top(t).st = "true"
       THEN /\ stk' = ReplacedPushed(t, [Top(t) EXCEPT !.pc = "clear"],
                                      Frame("runAndDestroy", "run", 0, "", 0))
            /\ UNCHANGED obs
       ELSE /\ stk' = Popped(t)
            /\ obs' = [obs EXCEPT !.waitRet = @ \cup {WaitRet(Top(t).op, "false")}]
  /\ UNCHANGED <<cores, de, queue, sf, prom, posted, agg>>

\* ... and after runAndDestroy: core_->setExecutor(nullptr)
SfWaitClear(t) ==
  /\ stk[t] /= <<>>
  /\ Top(t).op \in {"sfWait", "sfWaitDur"}
  /\ Top(t).pc = "clear"
  /\ cores' = [cores EXCEPT ![sf.core].exec = "none"]
  /\ stk' = Popped(t)
  /\ obs' = [obs EXCEPT !.waitRet = @ \cup
               {WaitRet(Top(t).op, "true")}]
  /\ UNCHANGED <<de, queue, sf, prom, posted, agg>>

\* ~SemiFuture -> releaseDeferredExecutor: detach() the placeholder (here its
\* entry: load state_) ...
Drop ==
  /\ Idle("cons")
  /\ sf.kind = "semi"
  /\ IF cores[sf.core].exec = "DE"
       THEN /\ stk' = [stk EXCEPT !["cons"] =
                         <<Frame("sfDrop", "clear", 0, "", 0),
                           Frame("detach", "loop", 0, de.state, 0)>>]
            /\ sf' = [sf EXCEPT !.kind = "dropping", !.detached = TRUE]
       ELSE /\ sf' = [sf EXCEPT !.kind = "none"]
            /\ UNCHANGED stk
  /\ UNCHANGED <<cores, de, queue, prom, posted, agg, obs>>

\* ... then core->setExecutor(nullptr)
SfDropClear(t) ==
  /\ At(t, "sfDrop", "clear")
  /\ cores' = [cores EXCEPT ![sf.core].exec = "none"]
  /\ sf' = [sf EXCEPT !.kind = "none"]
  /\ stk' = Popped(t)
  /\ UNCHANGED <<de, queue, prom, posted, agg, obs>>

\* ---------------------------------------------------------------- Future
\* The continuation installed by each way of chaining on a Future:
\* then(f) with f taking T (isTry false), f returning or throwing;
\* thenValue(f) (a Try-taking lambda around f); thenTry(f); onError(f) with
\* f taking UserError.
Handlers == {"then", "thenThrow", "thenValue", "thenTry", "onError"}

HandlerCb(h, to) ==
  CASE h = "then" -> ThenCb(FALSE, "val", to)
    [] h = "thenThrow" -> ThenCb(FALSE, "thr", to)
    [] h = "thenValue" -> ThenCb(TRUE, "wrapVal", to)
    [] h = "thenTry" -> ThenCb(TRUE, "try", to)
    [] h = "onError" -> ThenCb(TRUE, "onErr", to)
    [] h = "thenError" -> ThenCb(TRUE, "onErr", to)
    [] h = "onErrorFut" -> ThenCb(TRUE, "onErrFut", to)
    [] h = "thenFut" -> ThenCb(FALSE, "fut", to)
    [] h = "thenSemi" -> ThenCb(FALSE, "semi", to)

\* A chain in which every step hands the interrupt handler on.
PropagatesAlways(h) == TRUE

\* Does the step copy this Core's interrupt handler into the new Promise's
\* Core?  thenImplementation and onError with a function taking Exn and
\* returning T do (setInterruptHandlerNoLock(getInterruptHandler())); onError
\* with a function returning Future<T> makes its Promise without it.
Propagates(h) == h /= "onErrorFut"

\* a step whose Future comes back without an executor
HandlerExecNone(h, e) == "none"

\* the executor of the returned Future: then carries this Core's, onError
\* goes via the inline executor, thenError via this Core's or the inline one
HandlerExec(h, e) ==
  CASE h \in {"onError", "onErrorFut"} -> "Inline"
    [] h = "thenError" -> chainExecutor(e)
    [] OTHER -> e

\* Future::then / thenValue / thenTry (thenImplementation: new Promise and
\* Core carrying this Core's executor, callback installed on this Core) and
\* onError (the returned future goes via the inline executor)
Then(h) ==
  /\ Idle("cons")
  /\ sf.kind = "chain"
  /\ sf.n < MaxThen
  /\ Nested(HandlerCb(h, 0).fn) => ~sf.nested
  /\ LET k == sf.core IN
     /\ cores' = [cores EXCEPT
          ![k].cb = HandlerCb(h, k + 1),
          ![k + 1].exec = HandlerExec(h, cores[k].exec),
          ![k + 1].handler = IF Propagates(h) THEN cores[k].handler ELSE "none"]
     /\ stk' = Pushed("cons", Frame("setCallback", "cas", k, "", 0))
     /\ sf' = [sf EXCEPT !.core = k + 1, !.n = @ + 1,
                         !.nested = @ \/ Nested(HandlerCb(h, 0).fn)]
     /\ obs' = [obs EXCEPT !.viaAt[k] = sf.via]
  /\ UNCHANGED <<de, queue, prom, posted, agg>>

\* Future::via(executor) &&: setExecutor on this Core (the chains explored bind
\* the executor before the first continuation is attached)
ViaF(e) ==
  /\ Idle("cons")
  /\ sf.kind = "chain"
  /\ sf.n = 0
  /\ cores[sf.core].exec /= e
  /\ cores' = [cores EXCEPT ![sf.core].exec = e]
  /\ sf' = [sf EXCEPT !.via = e]
  /\ UNCHANGED <<de, stk, queue, prom, posted, agg, obs>>

\* Future::via(executor) && anywhere in a chain: setExecutor on the Core of
\* the Future at the end of the chain
ViaTail(e) ==
  /\ Idle("cons")
  /\ sf.kind = "chain"
  /\ cores[sf.core].exec /= e
  /\ sf.via /= e
  /\ cores' = [cores EXCEPT ![sf.core].exec = e]
  /\ sf' = [sf EXCEPT !.via = e]
  /\ UNCHANGED <<de, stk, queue, prom, posted, agg, obs>>

\* ---------------------------------------------------------------- interrupts
\* the longest chain whose end is interrupted
MaxRaiseChain == 2

\* the errors a consumer raises
Interrupts == {"Cancel", "FutureCancellation"}

\* Promise::setInterruptHandler(h) on the root Promise (Core: under the
\* interrupt lock, a pending interrupt is handed to h at once, else h is
\* stored)
SetInterruptHandler ==
  /\ Idle("prod")
  /\ prom.root.alive
  /\ obs.installAt = -1
  /\ IF cores[1].interrupt /= ""
       THEN /\ obs' = [obs EXCEPT !.installAt = sf.n,
                                   !.handled = Append(@, cores[1].interrupt)]
            /\ UNCHANGED cores
       ELSE /\ obs' = [obs EXCEPT !.installAt = sf.n]
            /\ cores' = [cores EXCEPT ![1].handler = "H"]
  /\ UNCHANGED <<de, stk, queue, sf, prom, posted, agg>>

\* A raise that is lost when no handler is there yet.
RaiseUnremembered(x) ==
  /\ Idle("cons")
  /\ sf.kind = "chain"
  /\ obs.raised = ""
  /\ obs' = [obs EXCEPT !.raised = x, !.raisedOn = sf.core,
                        !.handled = IF cores[sf.core].handler /= "none"
                                      THEN Append(@, x) ELSE @]
  /\ UNCHANGED <<cores, de, stk, queue, sf, prom, posted, agg>>

\* FutureBase::raise(exception) on the consumer's handle -> Core::raise
\* (under the interrupt lock, the handler of this Core is invoked if there is
\* one, else the interrupt is stored)
Raise(x) ==
  /\ Idle("cons")
  /\ sf.kind = "chain"
  /\ obs.raised = ""
  /\ IF cores[sf.core].handler /= "none"
       THEN /\ obs' = [obs EXCEPT !.raised = x, !.raisedOn = sf.core,
                                   !.handled = Append(@, x)]
            /\ UNCHANGED cores
       ELSE /\ obs' = [obs EXCEPT !.raised = x, !.raisedOn = sf.core]
            /\ cores' = [cores EXCEPT ![sf.core].interrupt = x]
  /\ UNCHANGED <<de, stk, queue, sf, prom, posted, agg>>

\* ---------------------------------------------------------------- collect*
\* the errors the inputs may complete with, one per input
ErrNames == <<"E1", "E2", "E3", "E4">>

\* The result Promise of a combinator: nothing yet, an error, or a value
\* holding a vector of (index, Try) pairs.  Input i of the model is the
\* input at index i - 1 of the code.
AggNone == [k |-> "none", e |-> "", vec |-> <<>>]
AggErr(x) == [k |-> "err", e |-> x, vec |-> <<>>]
AggVal(v) == [k |-> "val", e |-> "", vec |-> v]
Pair(i, t) == [i |-> i, t |-> t]

\* the shared context after construction
AggInit ==
  [op |-> "none", n |-> 0, refs |-> 0, flag |-> FALSE, completed |-> 0,
   stored |-> 0, nFul |-> 0, slots |-> [i \in Inputs |-> NoTry],
   res |-> AggNone, sets |-> 0, order |-> <<>>, counted |-> <<>>,
   before |-> [i \in Inputs |-> {}], anom |-> {},
   exc |-> "", timer |-> "none", raised |-> FALSE, late |-> FALSE,
   srcAtFire |-> "", flagAtFire |-> FALSE, memo |-> 0, stage |-> 0, racc |-> 0, applied |-> <<>>,
   size |-> 0, tasks |-> <<>>, calls |-> [k \in 1 .. MaxItems |-> "none"],
   win |-> [k \in 1 .. MaxItems |->
              [calls |-> 0, fut |-> NoTry, prom |-> NoTry, sets |-> 0]],
   loop |-> [k \in 1 .. MaxTimes + 1 |->
               [v |-> NoTry, fwd |-> FALSE, sets |-> 0]],
   node |-> [k \in 0 .. MaxInputs |-> [v |-> NoTry, cb |-> 0]]]

\* Promise::setValue / setException / setTry on the result Promise
AggSet(a, x) ==
  IF a.res.k /= "none"
    THEN [a EXCEPT !.sets = @ + 1, !.anom = @ \cup {"PromiseAlreadySatisfied"}]
    ELSE [a EXCEPT !.res = x, !.sets = @ + 1]

\* a Promise<T> fulfilled with the Try of the one source
TryRes(t) == IF t.k = "err" THEN AggErr(t.e) ELSE AggVal(<<Pair(1, t)>>)

\* the whole results vector, slot by slot
AllPairs(sl) == [i \in Inputs |-> Pair(i, sl[i])]

\* CollectNContext::complete: the entries of v that have a value, by index
RECURSIVE SlotPairs(_, _)
SlotPairs(sl, i) ==
  IF i > MaxInputs THEN <<>>
  ELSE (IF sl[i].k /= "none" THEN <<Pair(i, sl[i])>> ELSE <<>>)
         \o SlotPairs(sl, i + 1)

\* a context destructor that fulfils the Promise whatever threw says
DestroyedAlways(a) ==
  IF a.op \in {"collectAll", "collect"}
    THEN AggSet(a, AggVal(AllPairs(a.slots)))
    ELSE a

\* ~CollectAllContext: p.setValue(results).  ~CollectContext: unless threw,
\* move the values out of the Optionals (an empty one throws) and setValue.
Destroyed(a) ==
  CASE a.op = "collectAll" -> AggSet(a, AggVal(AllPairs(a.slots)))
    [] a.op = "collect" /\ ~a.flag ->
         AggSet([a EXCEPT !.flag = TRUE,
                          !.anom = @ \cup (IF \E i \in Inputs : a.slots[i].k = "none"
                                             THEN {"emptyOptional"} ELSE {})],
                AggVal(AllPairs(a.slots)))
    [] OTHER -> a

\* a context destroyed as soon as any one reference to it goes away
ReleaseFirst(a) == Destroyed([a EXCEPT !.refs = @ - 1])

\* a shared_ptr to the context goes away; the last one destroys the context
Release(a) ==
  LET b == [a EXCEPT !.refs = @ - 1] IN
  IF b.refs = 0 THEN Destroyed(b) ELSE b

\* collectAll / collect / collectAny / collectAnyWithoutException / collectN
\* over all the inputs: make the context, then mapSetCallback
Collect(op, n) ==
  /\ Idle("cons")
  /\ sf.kind = "agg"
  /\ agg.op = "none"
  /\ agg' = [agg EXCEPT !.op = op, !.n = n, !.refs = 1]
  /\ stk' = Pushed("cons", Frame("mapSetCallback", "next", 1, "", 0))
  /\ UNCHANGED <<cores, de, queue, sf, prom, posted, obs>>

\* mapSetCallback: setCallback_ on the next input, the lambda holding a
\* reference to the context; after the last one the function returns and
\* its own reference goes away
MapSetCallback(t) ==
  /\ At(t, "mapSetCallback", "next")
  /\ LET i == Top(t).c IN
     IF i <= MaxInputs
       THEN /\ cores' = [cores EXCEPT ![i].cb = AggCb(agg.op, i)]
            /\ agg' = [agg EXCEPT !.refs = @ + 1]
            /\ stk' = ReplacedPushed(t, [Top(t) EXCEPT !.c = i + 1],
                                      Frame("setCallback", "cas", i, "", 0))
            /\ UNCHANGED sf
       ELSE /\ agg' = Release(agg)
            /\ stk' = Popped(t)
            /\ sf' = [sf EXCEPT !.kind = "aggDone"]
            /\ UNCHANGED cores
  /\ UNCHANGED <<de, queue, prom, posted, obs>>

\* an exchange that every caller wins
FirstToSetAlways(a) == TRUE

\* !threw.exchange(true), !done.exchange(true): the caller is the first
FirstToSet(a) == ~a.flag

\* a gate that lets every completer through
PastGateNever(a) == FALSE

\* collectN: c = 1 + completed.fetch_add(1); c > n
PastGate(a) == a.completed + 1 > a.n

\* a count that is complete at the first error
LastToFailFirst(a) == a.nFul + 1 = 1

\* collectAnyWithoutException: ++nFulfilled == nTotal
LastToFail(a) == a.nFul + 1 = MaxInputs

\* the mark of the callback that forwards the last memo to the result
Final == MaxInputs + 1

\* the reducer given to reduce and unorderedReduce, commutative and
\* associative
Op(a, b) == a + b

\* a final forwarding armed by the first callback
AllChainedFirst(a) == a.nFul + 1 = 1

\* unorderedReduce: ++ctx->numThens_ == ctx->numFutures_
AllChained(a) == a.nFul + 1 = MaxInputs

\* the first shared-memory step of func(i, t): collectAll stores the Try;
\* collect exchanges threw on an error and loads it on a value; collectAny
\* exchanges done; collectAnyWithoutException exchanges done on a value
\* only; collectN fetch_adds completed; unorderedReduce, under its spinlock,
\* exchanges memo_ for the Future of a new Promise, counts itself and, when
\* it is the last, arms the forwarding of the new memo_ to the result;
\* reduce's callback has its input's Try
AggGate(t) ==
  /\ At(t, "agg", "gate")
  /\ LET i == Top(t).c
         r == cores[i].result
         a == [agg EXCEPT !.order = Append(@, i)]
         go(pc) == Replaced(t, [Top(t) EXCEPT !.pc = pc])
     IN
     CASE agg.op = "collectAll" ->
            /\ agg' = [a EXCEPT !.slots[i] = r]
            /\ stk' = go("release")
       [] agg.op = "collect" /\ r.k = "err" ->
            /\ agg' = [a EXCEPT !.flag = TRUE]
            /\ stk' = go(IF FirstToSet(agg) THEN "fulfilExc" ELSE "release")
       [] agg.op = "collect" /\ r.k /= "err" ->
            /\ agg' = a
            /\ stk' = go(IF agg.flag THEN "release" ELSE "partial")
       [] agg.op \in {"collectAny", "within"} ->
            /\ agg' = [a EXCEPT !.flag = TRUE]
            /\ stk' = go(IF FirstToSet(agg) THEN "fulfil" ELSE "release")
       [] agg.op = "collectAnyWithoutException" /\ r.k /= "err" ->
            /\ agg' = [a EXCEPT !.flag = TRUE]
            /\ stk' = go(IF FirstToSet(agg) THEN "fulfil" ELSE "count")
       [] agg.op = "collectAnyWithoutException" /\ r.k = "err" ->
            /\ agg' = a
            /\ stk' = go("count")
       [] agg.op = "unorderedReduce" ->
            /\ agg' = [a EXCEPT !.memo = i, !.nFul = @ + 1,
                                !.node[i].cb = IF AllChained(agg) THEN Final ELSE 0]
            /\ stk' = Replaced(t, [Top(t) EXCEPT !.pc = "chain", !.bt = agg.memo])
       [] agg.op = "reduce" ->
            /\ agg' = [a EXCEPT !.slots[i] = r]
            /\ stk' = go("stage")
       [] agg.op = "collectN" ->
            /\ agg' = [a EXCEPT !.completed = @ + 1]
            /\ stk' = go(IF PastGate(agg) THEN "release" ELSE "partial")
  /\ UNCHANGED <<cores, de, queue, sf, prom, posted, obs>>

\* setPartialResult(i, t)
AggPartial(t) ==
  /\ At(t, "agg", "partial")
  /\ agg' = [agg EXCEPT !.slots[Top(t).c] = cores[Top(t).c].result]
  /\ stk' = Replaced(t, [Top(t) EXCEPT
               !.pc = IF agg.op = "collectN" THEN "stored" ELSE "release"])
  /\ UNCHANGED <<cores, de, queue, sf, prom, posted, obs>>

\* a store count that lets every storer complete the result
AggStoredAlways(t) ==
  /\ At(t, "agg", "stored")
  /\ agg' = [agg EXCEPT !.stored = @ + 1]
  /\ stk' = Replaced(t, [Top(t) EXCEPT !.pc = "fulfil"])
  /\ UNCHANGED <<cores, de, queue, sf, prom, posted, obs>>

\* collectN: s = 1 + stored.fetch_add(1); return if s < n
AggStored(t) ==
  /\ At(t, "agg", "stored")
  /\ agg' = [agg EXCEPT !.stored = @ + 1]
  /\ stk' = Replaced(t, [Top(t) EXCEPT
               !.pc = IF agg.stored + 1 < agg.n THEN "release" ELSE "fulfil"])
  /\ UNCHANGED <<cores, de, queue, sf, prom, posted, obs>>

\* collectAnyWithoutException: ++nFulfilled == nTotal
AggCount(t) ==
  /\ At(t, "agg", "count")
  /\ agg' = [agg EXCEPT !.nFul = @ + 1, !.counted = Append(@, Top(t).c)]
  /\ stk' = Replaced(t, [Top(t) EXCEPT
               !.pc = IF LastToFail(agg) THEN "fulfilExc" ELSE "release"])
  /\ UNCHANGED <<cores, de, queue, sf, prom, posted, obs>>

\* p.setValue(make_pair(i, t)) of collectAny and collectAnyWithoutException;
\* complete() of collectN
AggFulfil(t) ==
  /\ At(t, "agg", "fulfil")
  /\ LET i == Top(t).c
         r == cores[i].result IN
     agg' = AggSet(agg, CASE agg.op = "collectN" -> AggVal(SlotPairs(agg.slots, 1))
                          [] agg.op = "within" -> TryRes(r)
                          [] OTHER -> AggVal(<<Pair(i, r)>>))
  /\ stk' = Replaced(t, [Top(t) EXCEPT !.pc = "release"])
  /\ UNCHANGED <<cores, de, queue, sf, prom, posted, obs>>

\* p.setException(t.exception()) of collect and collectAnyWithoutException
AggFulfilExc(t) ==
  /\ At(t, "agg", "fulfilExc")
  /\ LET r == cores[Top(t).c].result IN
     agg' = IF r.k = "err" THEN AggSet(agg, AggErr(r.e))
            ELSE [agg EXCEPT !.anom = @ \cup {"exceptionOfValue"}]
  /\ stk' = Replaced(t, [Top(t) EXCEPT !.pc = "release"])
  /\ UNCHANGED <<cores, de, queue, sf, prom, posted, obs>>

\* func returned: the Core destroys the callback and with it the lambda's
\* reference to the context
AggRelease(t) ==
  /\ At(t, "agg", "release")
  /\ agg' = Release(agg)
  /\ stk' = Popped(t)
  /\ UNCHANGED <<cores, de, queue, sf, prom, posted, obs>>

\* the inputs whose fulfilment has returned
Completed(i) == cores[i].result /= NoTry /\ Idle(InNames[i])

\* the Promise of input i is fulfilled, by its own thread; before[i] keeps
\* the inputs whose fulfilment had returned when this one began, and late
\* whether the timer's callback had returned by then
Complete(i, x) ==
  /\ Idle(InNames[i])
  /\ cores[i].result = NoTry
  /\ cores' = [cores EXCEPT ![i].result = x]
  /\ stk' = Pushed(InNames[i], Frame("setResult", "cas", i, "", 0))
  /\ agg' = [agg EXCEPT !.before[i] = {j \in Inputs : Completed(j)},
                         !.late = agg.timer /= "none" /\ agg.timer /= "armed"
                                    /\ Idle("timer")]
  /\ UNCHANGED <<de, queue, sf, prom, posted, obs>>

\* ---------------------------------------------------------------- reduce
\* reduce(first, last, initial, func) and unorderedReduce(...) over all the
\* inputs: node 0 is makeFuture(initial), node i the Promise made by the
\* callback of input i
Reduce(op, z) ==
  /\ Idle("cons")
  /\ sf.kind = "reduce"
  /\ agg.op = "none"
  /\ agg' = [agg EXCEPT !.op = op, !.n = z, !.refs = 1, !.racc = z,
                        !.node[0].v = Val(z)]
  /\ stk' = Pushed("cons", Frame("mapSetCallback", "next", 1, "", 0))
  /\ UNCHANGED <<cores, de, queue, sf, prom, posted, obs>>

\* unorderedReduce: f.setCallback_(...) on the memo the callback took: run
\* at once when that memo has its value, else left for its fulfiller
AggChain(t) ==
  /\ At(t, "agg", "chain")
  /\ LET m == Top(t).bt IN
     IF agg.node[m].v /= NoTry
       THEN /\ stk' = Replaced(t, [Top(t) EXCEPT !.pc = "apply"])
            /\ agg' = agg
       ELSE /\ stk' = Replaced(t, [Top(t) EXCEPT !.pc = "release"])
            /\ agg' = [agg EXCEPT !.node[m].cb = Top(t).c]
  /\ UNCHANGED <<cores, de, queue, sf, prom, posted, obs>>

\* a callback that applies func whatever it is given
ReducedAlways(v, r) == Val(Op(v.v, r.v))

\* unorderedReduce: what the callback of an input puts into its Promise,
\* for the memo's Try v and the input's Try r, with a func that takes
\* values: v itself when v is an error, the error of r when r is one (get
\* throws it), else func(v, r)
Reduced(v, r) ==
  IF v.k = "err" THEN v
  ELSE IF r.k = "err" THEN Err(r.e)
  ELSE Val(Op(v.v, r.v))

\* unorderedReduce: the callback of input i on its memo's value v fulfils
\* its Promise with func(v, t); that runs the callback waiting there
AggApply(t) ==
  /\ At(t, "agg", "apply")
  /\ LET i == Top(t).c
         m == Top(t).bt
         x == Reduced(agg.node[m].v, cores[i].result)
         nx == agg.node[i].cb
         done == [Top(t) EXCEPT !.pc = "release"] IN
     /\ agg' = [agg EXCEPT !.node[i].v = x,
                           !.applied = IF agg.node[m].v.k = "val"
                                          /\ cores[i].result.k = "val"
                                         THEN Append(@, i) ELSE @]
     /\ stk' = IF nx = 0 THEN Replaced(t, done)
               ELSE IF nx = Final
                 THEN ReplacedPushed(t, done, Frame("agg", "final", i, "", i))
                 ELSE ReplacedPushed(t, done, Frame("agg", "apply", nx, "", i))
  /\ UNCHANGED <<cores, de, queue, sf, prom, posted, obs>>

\* unorderedReduce: ctx->promise_.setValue(t2) on the last memo
AggFinal(t) ==
  /\ At(t, "agg", "final")
  /\ agg' = AggSet(agg, TryRes(agg.node[Top(t).bt].v))
  /\ stk' = Popped(t)
  /\ UNCHANGED <<cores, de, queue, sf, prom, posted, obs>>

\* reduce on an empty range: if (first == last) return makeFuture(initial)
ReduceEmpty(z) ==
  /\ Idle("cons")
  /\ sf.kind = "reduce"
  /\ agg.op = "none"
  /\ agg' = [agg EXCEPT !.op = "reduceEmpty", !.n = z, !.res = TryRes(Val(z)),
                        !.sets = 1]
  /\ sf' = [sf EXCEPT !.kind = "aggDone"]
  /\ UNCHANGED <<cores, de, stk, queue, prom, posted, obs>>

\* a fold that takes the inputs from the last to the first
NextStageBackwards(a) == MaxInputs - a.stage

\* reduce: the input the next stage folds in: f = first->then(...), then
\* for (++first; first != last; ++first) f = collectAll(f, *first).then(...)
NextStage(a) == a.stage + 1

\* reduce: stage k, the continuation on collectAll(f, input k), runs once
\* the stage before it and input k are both complete, on the thread that
\* completes the later of the two, and completes f with func(f's value,
\* input k's value); the last stage completes the Future reduce returned
AggStage(t) ==
  /\ At(t, "agg", "stage")
  /\ LET k == NextStage(agg) IN
     IF agg.stage < MaxInputs /\ agg.slots[k] /= NoTry
       THEN /\ agg' = LET x == Op(agg.racc, agg.slots[k].v)
                          b == [agg EXCEPT !.stage = @ + 1, !.racc = x,
                                           !.applied = Append(@, k)] IN
                      IF b.stage = MaxInputs THEN AggSet(b, TryRes(Val(x))) ELSE b
            /\ stk' = stk
       ELSE /\ agg' = agg
            /\ stk' = Replaced(t, [Top(t) EXCEPT !.pc = "release"])
  /\ UNCHANGED <<cores, de, queue, sf, prom, posted, obs>>

\* the value reduce gives for the inputs' values: func folded from initial
\* over the inputs in index order, from input i on
RECURSIVE FoldLeft(_, _)
FoldLeft(acc, i) ==
  IF i > MaxInputs THEN acc
  ELSE FoldLeft(Op(acc, cores[i].result.v), i + 1)

\* ---------------------------------------------------------------- window
\* the threads of the executor given to window
PoolThreads == {"exec"} \cup InThreads

\* a window that starts a chain for every element
LanesAll(n, size) == size

\* std::min(n, input.size())
Lanes(n, size) == IF n < size THEN n ELSE size

\* window(executor, input, func, n): the context, then the first spawns
\* added to the executor; a task 0 is a spawn, a task k > 0 the delivery of
\* the result of call k
Window(size, n) ==
  /\ Idle("cons")
  /\ sf.kind = "window"
  /\ agg.op = "none"
  /\ agg' = [agg EXCEPT !.op = "window", !.n = n, !.size = size,
                        !.tasks = [k \in 1 .. Lanes(n, size) |-> 0]]
  /\ sf' = [sf EXCEPT !.kind = "windowDone"]
  /\ UNCHANGED <<cores, de, stk, queue, prom, posted, obs>>

\* a thread of the executor takes one of the tasks added to it
WinRun(t, k) ==
  /\ agg.op = "window"
  /\ Idle(t)
  /\ k \in 1 .. Len(agg.tasks)
  /\ agg' = [agg EXCEPT !.tasks = SubSeq(@, 1, k - 1) \o SubSeq(@, k + 1, Len(@))]
  /\ stk' = Pushed(t, IF agg.tasks[k] = 0
                        THEN Frame("spawn", "inc", 0, "", 0)
                        ELSE Frame("spawn", "setTry", agg.tasks[k], "", 0))
  /\ UNCHANGED <<cores, de, queue, sf, prom, posted, obs>>

\* a delivery that goes on to spawn without fulfilling the Promise
WinSetTryForget(t) ==
  /\ At(t, "spawn", "setTry")
  /\ agg' = [agg EXCEPT !.calls[Top(t).c] = "delivered"]
  /\ stk' = Replaced(t, Frame("spawn", "inc", 0, "", 0))
  /\ UNCHANGED <<cores, de, queue, sf, prom, posted, obs>>

\* the task added on completion: ctx->promises[i].setTry(t), then spawn
WinSetTry(t) ==
  /\ At(t, "spawn", "setTry")
  /\ LET i == Top(t).c IN
     agg' = [agg EXCEPT !.calls[i] = "delivered",
                        !.win[i].sets = @ + 1,
                        !.win[i].prom = IF @ = NoTry THEN agg.win[i].fut ELSE @,
                        !.anom = IF agg.win[i].prom = NoTry THEN @
                                 ELSE @ \cup {"PromiseAlreadySatisfied"}]
  /\ stk' = Replaced(t, Frame("spawn", "inc", 0, "", 0))
  /\ UNCHANGED <<cores, de, queue, sf, prom, posted, obs>>

\* spawn: size_t i = ctx->i++; nothing more when the input is used up
SpawnInc(t) ==
  /\ At(t, "spawn", "inc")
  /\ agg' = [agg EXCEPT !.completed = @ + 1]
  /\ stk' = IF agg.completed < agg.size
              THEN Replaced(t, Frame("spawn", "call", agg.completed + 1, "", 0))
              ELSE Popped(t)
  /\ UNCHANGED <<cores, de, queue, sf, prom, posted, obs>>

\* what makeFutureWith(func(input[i])) is when spawn gets it: a Future not
\* yet complete, one complete with func's value, or one holding what func
\* threw
FuncOutcomes(i) == {NoTry, Val(i), Err("UserError")}

\* spawn: func(input[i]) is called and the callback goes onto its Future;
\* on a Future that is complete the callback runs at once and adds the
\* delivery task to the executor
SpawnCall(t) ==
  /\ At(t, "spawn", "call")
  /\ LET i == Top(t).c IN
     \E r \in FuncOutcomes(i) :
       agg' = IF r = NoTry
                THEN [agg EXCEPT !.calls[i] = "running", !.win[i].calls = @ + 1]
                ELSE [agg EXCEPT !.calls[i] = "done", !.win[i].calls = @ + 1,
                                 !.win[i].fut = r, !.tasks = Append(@, i)]
  /\ stk' = Popped(t)
  /\ UNCHANGED <<cores, de, queue, sf, prom, posted, obs>>

\* the Future func returned for element i completes; its callback adds the
\* delivery task to the executor
WinComplete(i) ==
  /\ agg.op = "window"
  /\ agg.calls[i] = "running"
  /\ \E x \in {Val(i), Err("UserError")} :
       agg' = [agg EXCEPT !.calls[i] = "done", !.win[i].fut = x,
                          !.tasks = Append(@, i)]
  /\ UNCHANGED <<cores, de, stk, queue, sf, prom, posted, obs>>

\* ---------------------------------------------------------------- whileDo, times
\* The Future whileDo call k returns is Promise k's (level k); the Future
\* thunk call k returns is Core k's.  A Promise that is fulfilled hands its
\* Try at once to the Promise its Future was forwarded to.
RECURSIVE SetLevel(_, _, _)
SetLevel(l, k, x) ==
  LET m == [l EXCEPT ![k].v = IF @ = NoTry THEN x ELSE @, ![k].sets = @ + 1] IN
  IF l[k].fwd /\ k > 1 THEN SetLevel(m, k - 1, x) ELSE m

\* a predicate that never says stop before MaxTimes calls
TimesPredicateAlways(count, n) == count < MaxTimes

\* the predicate of times: count->fetch_add(1) < n
TimesPredicate(count, n) == count < n

\* times(n, thunk): whileDo with the counting predicate
Times(n) ==
  /\ Idle("cons")
  /\ sf.kind = "while"
  /\ agg.op = "none"
  /\ agg' = [agg EXCEPT !.op = "times", !.n = n]
  /\ stk' = Pushed("cons", Frame("whileDo", "pred", 1, "", 0))
  /\ UNCHANGED <<cores, de, queue, sf, prom, posted, obs>>

\* whileDo: if (predicate()); when it says no, makeFuture() is returned
WhilePred(t) ==
  /\ At(t, "whileDo", "pred")
  /\ LET k == Top(t).c IN
     IF TimesPredicate(agg.completed, agg.n)
       THEN /\ agg' = [agg EXCEPT !.completed = @ + 1,
                                  !.applied = Append(@, "predicate")]
            /\ stk' = Replaced(t, [Top(t) EXCEPT !.pc = "thunk"])
       ELSE /\ agg' = [agg EXCEPT !.completed = @ + 1,
                                  !.applied = Append(@, "predicate"),
                                  !.loop = SetLevel(@, k, Val(0))]
            /\ stk' = Replaced(t, [Top(t) EXCEPT !.pc = "ret"])
  /\ UNCHANGED <<cores, de, queue, sf, prom, posted, obs>>

\* whileDo: auto future = thunk(): a Future not yet complete, or one that
\* is complete with a value or with an error
WhileThunk(t) ==
  /\ At(t, "whileDo", "thunk")
  /\ LET k == Top(t).c IN
     \E r \in {NoTry, Val(k), Err("UserError")} :
       cores' = [cores EXCEPT ![k].result = r,
                              ![k].state = IF r = NoTry THEN "Start"
                                           ELSE "OnlyResult"]
  /\ agg' = [agg EXCEPT !.applied = Append(@, "thunk")]
  /\ stk' = Replaced(t, [Top(t) EXCEPT !.pc = "then"])
  /\ UNCHANGED <<de, queue, sf, prom, posted, obs>>

\* whileDo: return future.then(...): the continuation goes onto the
\* thunk's Future
WhileThen(t) ==
  /\ At(t, "whileDo", "then")
  /\ cores' = [cores EXCEPT ![Top(t).c].cb = WhileCb(Top(t).c)]
  /\ stk' = ReplacedPushed(t, [Top(t) EXCEPT !.pc = "ret"],
                            Frame("setCallback", "cas", Top(t).c, "", 0))
  /\ UNCHANGED <<de, queue, sf, prom, posted, obs, agg>>

\* whileDo returns its Future, to the caller of times or to the
\* continuation of the call before
WhileRet(t) ==
  /\ At(t, "whileDo", "ret")
  /\ stk' = Popped(t)
  /\ sf' = IF Top(t).c = 1 THEN [sf EXCEPT !.kind = "whileDone"] ELSE sf
  /\ UNCHANGED <<cores, de, queue, prom, posted, obs, agg>>

\* the continuation got an error: state.setException(t.exception())
WhileFail(t) ==
  /\ At(t, "whileDo", "fail")
  /\ agg' = [agg EXCEPT !.loop = SetLevel(@, Top(t).c, cores[Top(t).c].result)]
  /\ stk' = Popped(t)
  /\ UNCHANGED <<cores, de, queue, sf, prom, posted, obs>>

\* the continuation forwards the Future of the next whileDo call to its
\* Promise: tf3.setCallback_(p2.setTry), run at once on a complete Future
WhileFwd(t) ==
  /\ At(t, "whileDo", "fwd")
  /\ LET k == Top(t).c
         m == [agg.loop EXCEPT ![k + 1].fwd = TRUE] IN
     agg' = [agg EXCEPT !.loop = IF m[k + 1].v /= NoTry
                                   THEN SetLevel(m, k, m[k + 1].v) ELSE m]
  /\ stk' = Popped(t)
  /\ UNCHANGED <<cores, de, queue, sf, prom, posted, obs>>

\* the producer of the Future thunk call k returned completes it
ThunkDone(k, x) ==
  /\ agg.op = "times"
  /\ cores[k].cb /= NoCb \/ \E t \in Threads : At(t, "whileDo", "then") /\ Top(t).c = k
  /\ cores[k].result = NoTry
  /\ LET t == IF k % 2 = 1 THEN "prod" ELSE "prodQ" IN
     /\ Idle(t)
     /\ stk' = Pushed(t, Frame("setResult", "cas", k, "", 0))
  /\ cores' = [cores EXCEPT ![k].result = x]
  /\ UNCHANGED <<de, queue, sf, prom, posted, obs, agg>>

\* ---------------------------------------------------------------- within
\* the errors within may be given: FutureTimeout, or one of the caller's
WithinErrors == {"FutureTimeout", "UserError"}

\* a timer callback that always reports FutureTimeout
TimerErrorTimeout(a) == "FutureTimeout"

\* the timer callback's error: that of the timer's own Try when it has one,
\* else the one within was given
TimerError(a) == IF a.timer = "failed" THEN "TimerError" ELSE a.exc

\* a timer callback that never loses the exchange
TimerWinsAlways(a) == TRUE

\* the timer callback's !lockedCtx->token.exchange(true)
TimerWins(a) == ~a.flag

\* Future::within: a ready Future is returned as it is; otherwise
\* withinImplementation makes the context
Within(e) ==
  /\ Idle("cons")
  /\ sf.kind = "within"
  /\ agg.op = "none"
  /\ IF hasResult(1)
       THEN /\ agg' = [agg EXCEPT !.op = "withinReady",
                                  !.res = TryRes(cores[1].result)]
            /\ sf' = [sf EXCEPT !.kind = "withinDone"]
            /\ UNCHANGED stk
       ELSE /\ agg' = [agg EXCEPT !.op = "within", !.exc = e, !.refs = 1]
            /\ stk' = Pushed("cons", Frame("within", "then", 1, "", 0))
            /\ UNCHANGED sf
  /\ UNCHANGED <<cores, de, queue, prom, posted, obs>>

\* ctx->thisFuture = this->thenImplementation(f): the callback, which holds
\* a reference to the context, goes into the source's Core; the Core of
\* thisFuture (Core 2) is given the interrupt handler the source's Core has
WithinThen(t) ==
  /\ At(t, "within", "then")
  /\ cores' = [cores EXCEPT ![1].cb = AggCb("within", 1),
                            ![2].handler = cores[1].handler]
  /\ agg' = [agg EXCEPT !.refs = @ + 1]
  /\ stk' = ReplacedPushed(t, [Top(t) EXCEPT !.pc = "after"],
                            Frame("setCallback", "cas", 1, "", 0))
  /\ UNCHANGED <<de, queue, sf, prom, posted, obs>>

\* tk->after(dur).then(...): the timer is armed, its callback holding a weak
\* reference; then withinImplementation returns and its own reference goes
WithinAfter(t) ==
  /\ At(t, "within", "after")
  /\ agg' = [agg EXCEPT !.timer = "armed"]
  /\ stk' = Replaced(t, [Top(t) EXCEPT !.pc = "ret"])
  /\ UNCHANGED <<cores, de, queue, sf, prom, posted, obs>>

WithinRet(t) ==
  /\ At(t, "within", "ret")
  /\ agg' = Release(agg)
  /\ stk' = Popped(t)
  /\ sf' = [sf EXCEPT !.kind = "withinDone"]
  /\ UNCHANGED <<cores, de, queue, prom, posted, obs>>

\* the timekeeper completes the Future of after(dur) with x, and its
\* callback starts on the timekeeper's thread
TimerFire(x) ==
  /\ agg.timer = "armed"
  /\ Idle("timer")
  /\ agg' = [agg EXCEPT !.timer = IF x.k = "err" THEN "failed" ELSE "fired",
                        !.srcAtFire = IF cores[1].result = NoTry THEN "pending"
                                      ELSE IF Completed(1) THEN "completed"
                                      ELSE "completing",
                        !.flagAtFire = agg.flag]
  /\ stk' = Pushed("timer", Frame("timer", "lock", 0, "", 0))
  /\ UNCHANGED <<cores, de, queue, sf, prom, posted, obs>>

\* a timer callback that goes on without a context
TimerLockAlways(t) ==
  /\ At(t, "timer", "lock")
  /\ agg' = [agg EXCEPT !.refs = @ + 1]
  /\ stk' = Replaced(t, [Top(t) EXCEPT !.pc = "raise"])
  /\ UNCHANGED <<cores, de, queue, sf, prom, posted, obs>>

\* weakCtx.lock(): nothing to do when the context is gone
TimerLock(t) ==
  /\ At(t, "timer", "lock")
  /\ IF agg.refs = 0
       THEN agg' = agg /\ stk' = Popped(t)
       ELSE /\ agg' = [agg EXCEPT !.refs = @ + 1]
            /\ stk' = Replaced(t, [Top(t) EXCEPT !.pc = "raise"])
  /\ UNCHANGED <<cores, de, queue, sf, prom, posted, obs>>

\* a raise that nobody hears
TimerRaiseUnheard(t) ==
  /\ At(t, "timer", "raise")
  /\ agg' = [agg EXCEPT !.raised = TRUE]
  /\ stk' = Replaced(t, [Top(t) EXCEPT !.pc = "token"])
  /\ UNCHANGED <<cores, de, queue, sf, prom, posted, obs>>

\* lockedCtx->thisFuture.raise(FutureTimeout()): Core::raise on the Core of
\* thisFuture invokes its handler if it has one, else stores the interrupt
TimerRaise(t) ==
  /\ At(t, "timer", "raise")
  /\ agg' = [agg EXCEPT !.raised = TRUE]
  /\ stk' = Replaced(t, [Top(t) EXCEPT !.pc = "token"])
  /\ IF cores[2].handler /= "none"
       THEN /\ obs' = [obs EXCEPT !.handled = Append(@, "FutureTimeout")]
            /\ UNCHANGED cores
       ELSE /\ cores' = [cores EXCEPT ![2].interrupt = "FutureTimeout"]
            /\ UNCHANGED obs
  /\ UNCHANGED <<de, queue, sf, prom, posted>>

\* token.exchange(true); input 0 in the order of exchanges is the timer
TimerToken(t) ==
  /\ At(t, "timer", "token")
  /\ agg' = [agg EXCEPT !.flag = TRUE, !.order = Append(@, 0)]
  /\ stk' = Replaced(t, [Top(t) EXCEPT
               !.pc = IF TimerWins(agg) THEN "set" ELSE "unlock"])
  /\ UNCHANGED <<cores, de, queue, sf, prom, posted, obs>>

\* promise.setException(...)
TimerSet(t) ==
  /\ At(t, "timer", "set")
  /\ agg' = AggSet(agg, AggErr(TimerError(agg)))
  /\ stk' = Replaced(t, [Top(t) EXCEPT !.pc = "unlock"])
  /\ UNCHANGED <<cores, de, queue, sf, prom, posted, obs>>

\* the callback returns and lockedCtx goes
TimerUnlock(t) ==
  /\ At(t, "timer", "unlock")
  /\ agg' = Release(agg)
  /\ stk' = Popped(t)
  /\ UNCHANGED <<cores, de, queue, sf, prom, posted, obs>>

\* ---------------------------------------------------------------- timed get
\* The lambda waitImpl(f, dur) installs on the Core of f:
\* promise.setTry(std::move(t)); baton->post();  (to: the baton; the new
\* Promise owns the Core after the one the callback is installed on)
FwdPostCb(b) == [kind |-> "fwdPost", isTry |-> TRUE, fn |-> "none", to |-> b]

GetOps == {"Future::get", "SemiFuture::get", "getVia", "getTryVia", "Future::wait"}

\* the operations of a Future, and those of a SemiFuture
OnFuture(op) == op /= "SemiFuture::get"

\* the frame under the timed wait: get / getTry continue after it, wait
\* returns to the caller
AfterWait(op) ==
  CASE op = "SemiFuture::get" -> <<Frame(op, "detach", 0, "", 0)>>
    [] op = "Future::wait" -> <<>>
    [] OTHER -> <<Frame(op, "check", 0, "", 0)>>

\* A timed get that returns whatever the Core holds.
GetThrowsNever(c) == FALSE

\* `if (!isReady()) throw FutureTimeout` in get(dur), getVia(e, dur),
\* getTryVia(e, dur) and SemiFuture::getTry(dur)
GetThrows(c) == ~hasResult(c)

\* Future::get(dur) / Future::wait(dur) / SemiFuture::get(dur) without a
\* placeholder -> waitImpl(f, dur): a Future goes via the inline executor;
\* return if ready; else a new Promise (Core k + 1) and baton, the
\* forwarding callback on the Core of f.
WaitImplDur(op) ==
  /\ op \in {"Future::get", "SemiFuture::get", "Future::wait"}
  /\ Idle("cons")
  /\ agg.op = "none"
  /\ sf.kind = (IF OnFuture(op) THEN "future" ELSE "semi")
  /\ cores[sf.core].exec /= "DE"
  /\ cores[sf.core].cb.kind = "none"
  /\ agg' = [agg EXCEPT !.op = op]
  /\ LET k == sf.core
         e == IF OnFuture(op) THEN "Inline" ELSE cores[k].exec IN
     IF hasResult(k)
       THEN /\ cores' = [cores EXCEPT ![k].exec = e]
            /\ stk' = [stk EXCEPT !["cons"] = AfterWait(op)]
            /\ obs' = [obs EXCEPT !.waitRet = @ \cup {WaitRet("waitImplDur", "ready")}]
            /\ UNCHANGED sf
       ELSE /\ cores' = [cores EXCEPT ![k].exec = e,
                                      ![k].cb = FwdPostCb(sf.nb + 1)]
            /\ stk' = [stk EXCEPT !["cons"] = AfterWait(op) \o
                         <<Frame("waitImplDur", "convert", k, "", sf.nb + 1),
                           Frame("setCallback", "cas", k, "", 0)>>]
            /\ sf' = [sf EXCEPT !.nb = @ + 1]
            /\ UNCHANGED obs
  /\ UNCHANGED <<de, queue, prom, posted>>

\* the forwarding callback after promise.setTry: baton->post()
FwdPost(t) ==
  /\ At(t, "fwdPost", "post")
  /\ posted' = posted \cup {Top(t).bt}
  /\ stk' = Popped(t)
  /\ UNCHANGED <<cores, de, queue, sf, prom, agg, obs>>

\* convertFuture(std::move(ret), f): the handle now owns the Core of the new
\* Promise, a Future carrying the executor of the old Core
WaitImplConvert(t) ==
  /\ At(t, "waitImplDur", "convert")
  /\ LET k == Top(t).c IN
     /\ cores' = [cores EXCEPT ![k + 1].exec =
                    IF sf.kind = "future" THEN chainExecutor(cores[k].exec) ELSE @]
     /\ sf' = [sf EXCEPT !.core = k + 1]
  /\ stk' = Replaced(t, [Top(t) EXCEPT !.pc = "block"])
  /\ UNCHANGED <<de, queue, prom, posted, agg, obs>>

\* baton->try_wait_for(dur) returns true
WaitImplDurWoken(t) ==
  /\ At(t, "waitImplDur", "block")
  /\ Top(t).bt \in posted
  /\ stk' = Popped(t)
  /\ obs' = [obs EXCEPT !.waitRet = @ \cup {WaitRet("waitImplDur", "true")},
                        !.assertFail = @ \/ ~hasResult(sf.core)]
  /\ UNCHANGED <<cores, de, queue, sf, prom, posted, agg>>

\* baton->try_wait_for(dur) returns false: the callback stays installed
WaitImplDurTimeout(t) ==
  /\ At(t, "waitImplDur", "block")
  /\ Top(t).bt \notin posted
  /\ stk' = Popped(t)
  /\ obs' = [obs EXCEPT !.waitRet = @ \cup {WaitRet("waitImplDur", "false")}]
  /\ UNCHANGED <<cores, de, queue, sf, prom, posted, agg>>

\* SemiFuture::get(dur) with a placeholder -> getTry(dur) -> wait(dur) ->
\* deferredExecutor->wait(dur)
GetTryDur ==
  /\ Idle("cons")
  /\ agg.op = "none"
  /\ sf.kind = "semi"
  /\ cores[sf.core].exec = "DE"
  /\ agg' = [agg EXCEPT !.op = "SemiFuture::get"]
  /\ de' = [de EXCEPT !.baton = sf.nb + 1]
  /\ stk' = [stk EXCEPT !["cons"] =
               <<Frame("SemiFuture::get", "detach", 0, "", 0),
                 Frame("sfWaitDur", "ret", 0, "", 0),
                 Frame("waitDur", "loop", 0, de.state, sf.nb + 1)>>]
  /\ sf' = [sf EXCEPT !.nb = @ + 1, !.tw = @ + 1]
  /\ UNCHANGED <<cores, queue, prom, posted, obs>>

\* getTry(dur) after the wait: `if (auto de = getDeferredExecutor())
\* de->detach()`
GetTryDetach(t) ==
  /\ At(t, "SemiFuture::get", "detach")
  /\ IF cores[sf.core].exec = "DE"
       THEN /\ stk' = ReplacedPushed(t, [Top(t) EXCEPT !.pc = "clear"],
                                      Frame("detach", "loop", 0, de.state, 0))
            /\ sf' = [sf EXCEPT !.detached = TRUE]
       ELSE /\ stk' = Replaced(t, [Top(t) EXCEPT !.pc = "clear"])
            /\ UNCHANGED sf
  /\ UNCHANGED <<cores, de, queue, prom, posted, agg, obs>>

\* ... then core_->setExecutor(nullptr)
GetTryClear(t) ==
  /\ At(t, "SemiFuture::get", "clear")
  /\ cores' = [cores EXCEPT ![sf.core].exec = "none"]
  /\ stk' = Replaced(t, [Top(t) EXCEPT !.pc = "check"])
  /\ UNCHANGED <<de, queue, sf, prom, posted, agg, obs>>

\* getVia(e, dur) / getTryVia(e, dur) -> waitVia(e, dur) -> waitViaImpl:
\* return if ready, else f = via(e).then(identity) (new Core k + 1)
WaitViaDur(op) ==
  /\ op \in {"getVia", "getTryVia"}
  /\ Idle("cons")
  /\ agg.op = "none"
  /\ sf.kind = "future"
  /\ cores[sf.core].cb.kind = "none"
  /\ agg' = [agg EXCEPT !.op = op]
  /\ LET k == sf.core IN
     IF hasResult(k)
       THEN /\ stk' = [stk EXCEPT !["cons"] = AfterWait(op)]
            /\ obs' = [obs EXCEPT !.waitRet = @ \cup {WaitRet("waitVia", "ready")}]
            /\ UNCHANGED <<cores, sf>>
       ELSE /\ cores' = [cores EXCEPT ![k].exec = "E",
                                      ![k].cb = ThenCb(FALSE, "id", k + 1),
                                      ![k + 1].exec = "E"]
            /\ stk' = [stk EXCEPT !["cons"] = AfterWait(op) \o
                         <<Frame("waitVia", "loop", 0, "", 0),
                           Frame("setCallback", "cas", k, "", 0)>>]
            /\ sf' = [sf EXCEPT !.core = k + 1, !.via = "E"]
            /\ UNCHANGED obs
  /\ UNCHANGED <<de, queue, prom, posted>>

\* `while (!f.isReady() && now < deadline) e->try_drive_until(deadline)`:
\* the waiting thread runs the task at the head of the executor's queue
WaitViaDrive(t) ==
  /\ At(t, "waitVia", "loop")
  /\ ~hasResult(sf.core)
  /\ queue /= <<>>
  /\ stk' = Pushed(t, Frame("runcb", "run", Head(queue), "", 0))
  /\ queue' = Tail(queue)
  /\ UNCHANGED <<cores, de, sf, prom, posted, agg, obs>>

\* the loop ends with f ready: f = via(&InlineExecutor::instance())
WaitViaReady(t) ==
  /\ At(t, "waitVia", "loop")
  /\ hasResult(sf.core)
  /\ cores' = [cores EXCEPT ![sf.core].exec = "Inline"]
  /\ stk' = Popped(t)
  /\ obs' = [obs EXCEPT !.waitRet = @ \cup {WaitRet("waitVia", "true")}]
  /\ UNCHANGED <<de, queue, sf, prom, posted, agg>>

\* the loop ends at the deadline with f not ready
WaitViaDeadline(t) ==
  /\ At(t, "waitVia", "loop")
  /\ ~hasResult(sf.core)
  /\ stk' = Popped(t)
  /\ obs' = [obs EXCEPT !.waitRet = @ \cup {WaitRet("waitVia", "false")}]
  /\ UNCHANGED <<cores, de, queue, sf, prom, posted, agg>>

\* `if (!isReady()) throw FutureTimeout; return value()` (result() in
\* getTryVia, future.getTry() in getTry): what the call gives its caller
GetCheck(t) ==
  /\ stk[t] /= <<>>
  /\ Top(t).op \in GetOps
  /\ Top(t).pc = "check"
  /\ agg' = [agg EXCEPT
       !.res = IF GetThrows(sf.core) THEN AggErr("FutureTimeout")
               ELSE TryRes(cores[sf.core].result),
       !.flag = hasResult(sf.core),
       !.sets = @ + 1]
  \* getTry(dur) moves the Core out of the SemiFuture: core_ = nullptr
  /\ sf' = [sf EXCEPT !.kind = IF OnFuture(Top(t).op) THEN @ ELSE "none"]
  /\ stk' = Popped(t)
  /\ UNCHANGED <<cores, de, queue, prom, posted, obs>>

\* ---------------------------------------------------------------- producers
\* Promise::setValue / setException on the root Promise
Fulfil(x) ==
  /\ Idle("prod")
  /\ prom.root.alive
  /\ prom.root.n < prom.root.max
  /\ cores' = SetTryCores(1, x)
  /\ stk' = SetTryStk("prod", 1)
  /\ obs' = [obs EXCEPT !.thrown = @ \cup ThrownBy("prod", 1),
                        !.first = IF @ = NoTry THEN x ELSE @]
  /\ prom' = [prom EXCEPT !.root.n = @ + 1]
  /\ UNCHANGED <<de, queue, sf, posted, agg>>

\* ~Promise on the root Promise: BrokenPromise if unfulfilled
DropPromise ==
  /\ Idle("prod")
  /\ prom.root.alive
  /\ prom' = [prom EXCEPT !.root.alive = FALSE]
  /\ IF hasResult(1)
       THEN UNCHANGED <<cores, stk, obs>>
       ELSE /\ cores' = [cores EXCEPT ![1].result = Err("BrokenPromise")]
            /\ stk' = Pushed("prod", Frame("setResult", "cas", 1, "", 0))
            /\ obs' = [obs EXCEPT !.first = Err("BrokenPromise")]
  /\ UNCHANGED <<de, queue, sf, posted, agg>>

\* the Promise behind the nested future is fulfilled with x
FulfilQWith(x) ==
  /\ Idle("prodQ")
  /\ sf.nested
  /\ prom.q.n = 0
  /\ cores' = [cores EXCEPT ![QC].result = x]
  /\ stk' = Pushed("prodQ", Frame("setResult", "cas", QC, "", 0))
  /\ prom' = [prom EXCEPT !.q.n = 1]
  /\ UNCHANGED <<de, queue, sf, posted, agg, obs>>

FulfilQ == FulfilQWith(Val(10))

\* ---------------------------------------------------------------- executor E
\* the real executor runs the task at the head of its queue
ExecRun ==
  /\ Idle("exec")
  /\ queue /= <<>>
  /\ stk' = [stk EXCEPT !["exec"] =
       <<IF Head(queue) = 0
           THEN Frame("runAndDestroy", "run", 0, "", 0)
           ELSE Frame("runcb", "run", Head(queue), "", 0)>>]
  /\ queue' = Tail(queue)
  /\ UNCHANGED <<cores, de, sf, prom, posted, agg, obs>>

\* ---------------------------------------------------------------- specification
ObsInit ==
  [done |-> [c \in Cores |-> 0], writers |-> [c \in Cores |-> 0],
   route |-> [c \in Cores |-> ""], fnIn |-> [c \in Cores |-> NoTry],
   cbIn |-> [c \in Cores |-> NoTry],
   stored |-> FALSE,
   cbRuns |-> [c \in Cores |-> 0], fnRuns |-> [c \in Cores |-> 0],
   fnCtx |-> {}, cbDestroyed |-> {}, thrown |-> {}, first |-> NoTry,
   uaf |-> FALSE, assertFail |-> FALSE, enq |-> 0, radRuns |-> 0,
   radBy |-> {}, reverts |-> 0, waitRet |-> {},
   handled |-> <<>>, raised |-> "", raisedOn |-> 0, installAt |-> -1,
   viaAt |-> [c \in Cores |-> ""]]

Init ==
  /\ cores = [c \in Cores |-> FreshCore]
  /\ de = [alloc |-> FALSE, state |-> "EMPTY", func |-> 0, executor |-> "none",
           baton |-> 0, freed |-> 0]
  /\ stk = [t \in Threads |-> <<>>]
  /\ queue = <<>>
  /\ sf = [kind |-> "semi", core |-> 1, n |-> 0, nested |-> FALSE, tw |-> 0,
           nb |-> 0, via |-> "none", detached |-> FALSE]
  /\ prom = [root |-> [alive |-> TRUE, n |-> 0, max |-> 1],
             q |-> [alive |-> TRUE, n |-> 0, max |-> 1]]
  /\ posted = {}
  /\ obs = ObsInit
  /\ agg = AggInit

ThreadStep(t) ==
  \/ SetResultCas(t)
  \/ SetCallbackCas(t)
  \/ RunCallback(t)
  \/ DestroyCallback(t)
  \/ AddLoad(t)
  \/ AddLoop(t)
  \/ AddCas(t)
  \/ AddPost(t)
  \/ DeleteThis(t)
  \/ SetExecutorLoop(t)
  \/ RunAndDestroy(t)
  \/ DetachLoop(t)
  \/ WaitLoop(t)
  \/ WaitWoken(t)
  \/ WaitTimeout(t)
  \/ WaitRevert(t)
  \/ SfViaBind(t)
  \/ WaitImplWoken(t)
  \/ SfWaitRet(t)
  \/ SfWaitClear(t)
  \/ SfDropClear(t)

Next ==
  \/ \E t \in Workers : ThreadStep(t)
  \/ \E kind \in {"val", "fut", "semi"} : Defer(kind)
  \/ \E e \in {"E", "Inline"} : Via(e)
  \/ Wait
  \/ WaitDur
  \/ Drop
  \/ Fulfil(Val(1))
  \/ DropPromise
  \/ FulfilQ
  \/ ExecRun

Spec == Init /\ [][Next]_vars

\* A Future chain on the root Promise, which may be fulfilled with a value
\* or an error, more than once, or destroyed.
InitChain ==
  /\ cores = [c \in Cores |-> FreshCore]
  /\ de = [alloc |-> FALSE, state |-> "EMPTY", func |-> 0, executor |-> "none",
           baton |-> 0, freed |-> 0]
  /\ stk = [t \in Threads |-> <<>>]
  /\ queue = <<>>
  /\ sf = [kind |-> "chain", core |-> 1, n |-> 0, nested |-> FALSE, tw |-> 0,
           nb |-> 0, via |-> "none", detached |-> FALSE]
  /\ prom = [root |-> [alive |-> TRUE, n |-> 0, max |-> MaxFulfil],
             q |-> [alive |-> TRUE, n |-> 0, max |-> 1]]
  /\ posted = {}
  /\ obs = ObsInit
  /\ agg = AggInit

Results == {Val(1), Err("UserError"), Err("OtherError")}

NextChain ==
  \/ \E t \in Workers : SetResultCas(t) \/ SetCallbackCas(t) \/ RunCallback(t)
  \/ \E h \in Handlers : Then(h)
  \/ ViaF("E")
  \/ \E x \in Results : Fulfil(x)
  \/ DropPromise
  \/ ExecRun

SpecChain == InitChain /\ [][NextChain]_vars

\* One then on a Future, with or without an executor, whose function
\* returns the Future or the SemiFuture of another Promise, or throws.
NestedHandlers == {"thenFut", "thenSemi", "thenThrow"}

InitNested ==
  /\ cores = [c \in Cores |-> FreshCore]
  /\ de = [alloc |-> FALSE, state |-> "EMPTY", func |-> 0, executor |-> "none",
           baton |-> 0, freed |-> 0]
  /\ stk = [t \in Threads |-> <<>>]
  /\ queue = <<>>
  /\ sf = [kind |-> "chain", core |-> 1, n |-> 0, nested |-> FALSE, tw |-> 0,
           nb |-> 0, via |-> "none", detached |-> FALSE]
  /\ prom = [root |-> [alive |-> TRUE, n |-> 0, max |-> 1],
             q |-> [alive |-> TRUE, n |-> 0, max |-> 1]]
  /\ posted = {}
  /\ obs = ObsInit
  /\ agg = AggInit

NextNested ==
  \/ \E t \in Workers : SetResultCas(t) \/ SetCallbackCas(t) \/ RunCallback(t)
  \/ \E h \in NestedHandlers : sf.n = 0 /\ Then(h)
  \/ ViaF("E")
  \/ \E x \in {Val(1), Err("UserError")} : Fulfil(x)
  \/ \E x \in {Val(10), Err("OtherError")} : FulfilQWith(x)
  \/ ExecRun

SpecNested == InitNested /\ [][NextNested]_vars

\* times(n, thunk) with thunks whose Futures complete, at once or later,
\* with a value or an error
InitWhile ==
  /\ cores = [c \in Cores |-> FreshCore]
  /\ de = [alloc |-> FALSE, state |-> "EMPTY", func |-> 0, executor |-> "none",
           baton |-> 0, freed |-> 0]
  /\ stk = [t \in Threads |-> <<>>]
  /\ queue = <<>>
  /\ sf = [kind |-> "while", core |-> 1, n |-> 0, nested |-> FALSE, tw |-> 0,
           nb |-> 0, via |-> "none", detached |-> FALSE]
  /\ prom = [root |-> [alive |-> TRUE, n |-> 0, max |-> 1],
             q |-> [alive |-> TRUE, n |-> 0, max |-> 1]]
  /\ posted = {}
  /\ obs = ObsInit
  /\ agg = AggInit

WhileStep(t) ==
  \/ SetResultCas(t)
  \/ SetCallbackCas(t)
  \/ RunCallback(t)
  \/ WhilePred(t)
  \/ WhileThunk(t)
  \/ WhileThen(t)
  \/ WhileRet(t)
  \/ WhileFail(t)
  \/ WhileFwd(t)

NextWhile ==
  \/ \E t \in {"cons", "prod", "prodQ"} : WhileStep(t)
  \/ \E n \in 0 .. MaxTimes : Times(n)
  \/ \E k \in 1 .. MaxTimes : \E x \in {Val(k), Err("UserError")} : ThunkDone(k, x)

SpecWhile == InitWhile /\ [][NextWhile]_vars

\* Chains of then / thenValue / thenTry / thenError with via() between the
\* steps.
ExecHandlers == {"then", "thenValue", "thenTry", "thenError"}

NextExec ==
  \/ \E t \in Workers : SetResultCas(t) \/ SetCallbackCas(t) \/ RunCallback(t)
  \/ \E h \in ExecHandlers : Then(h)
  \/ \E e \in {"E", "Inline"} : ViaTail(e)
  \/ \E x \in {Val(1), Err("UserError")} : Fulfil(x)
  \/ ExecRun

SpecExec == InitNested /\ [][NextExec]_vars

\* The collect* combinators over inputs that complete, each on its own
\* thread, with a value or an error, before, while or after the combinator
\* installs its callbacks.
InitCollect ==
  /\ cores = [c \in Cores |-> FreshCore]
  /\ de = [alloc |-> FALSE, state |-> "EMPTY", func |-> 0, executor |-> "none",
           baton |-> 0, freed |-> 0]
  /\ stk = [t \in Threads |-> <<>>]
  /\ queue = <<>>
  /\ sf = [kind |-> "agg", core |-> 1, n |-> 0, nested |-> FALSE, tw |-> 0,
           nb |-> 0, via |-> "none", detached |-> FALSE]
  /\ prom = [root |-> [alive |-> TRUE, n |-> 0, max |-> 1],
             q |-> [alive |-> TRUE, n |-> 0, max |-> 1]]
  /\ posted = {}
  /\ obs = ObsInit
  /\ agg = AggInit

CollectOps ==
  {"collectAll", "collect", "collectAny", "collectAnyWithoutException"}

AggStep(t) ==
  \/ SetResultCas(t)
  \/ SetCallbackCas(t)
  \/ RunCallback(t)
  \/ MapSetCallback(t)
  \/ AggGate(t)
  \/ AggPartial(t)
  \/ AggStored(t)
  \/ AggCount(t)
  \/ AggFulfil(t)
  \/ AggFulfilExc(t)
  \/ AggRelease(t)

NextCollect ==
  \/ \E t \in Threads : AggStep(t)
  \/ \E op \in CollectOps : Collect(op, 0)
  \/ \E n \in Inputs : Collect("collectN", n)
  \/ \E i \in Inputs : \E x \in {Val(i), Err(ErrNames[i])} : Complete(i, x)

SpecCollect == InitCollect /\ [][NextCollect]_vars

\* within on a source Future with or without an executor, the source
\* completing with a value or an error and the timer with a unit or an
\* error, before, while or after within runs.
InitWithin ==
  /\ \E x \in {"none", "E"} :
       cores = [c \in Cores |-> IF c = 1 THEN [FreshCore EXCEPT !.exec = x]
                                 ELSE FreshCore]
  /\ de = [alloc |-> FALSE, state |-> "EMPTY", func |-> 0, executor |-> "none",
           baton |-> 0, freed |-> 0]
  /\ stk = [t \in Threads |-> <<>>]
  /\ queue = <<>>
  /\ sf = [kind |-> "within", core |-> 1, n |-> 0, nested |-> FALSE, tw |-> 0,
           nb |-> 0, via |-> "none", detached |-> FALSE]
  /\ prom = [root |-> [alive |-> TRUE, n |-> 0, max |-> 1],
             q |-> [alive |-> TRUE, n |-> 0, max |-> 1]]
  /\ posted = {}
  /\ obs = ObsInit
  /\ agg = AggInit

WithinStep(t) ==
  \/ SetResultCas(t)
  \/ SetCallbackCas(t)
  \/ RunCallback(t)
  \/ AggGate(t)
  \/ AggFulfil(t)
  \/ AggRelease(t)
  \/ WithinThen(t)
  \/ WithinAfter(t)
  \/ WithinRet(t)
  \/ TimerLock(t)
  \/ TimerRaise(t)
  \/ TimerToken(t)
  \/ TimerSet(t)
  \/ TimerUnlock(t)

NextWithin ==
  \/ \E t \in {"cons", "exec", "in1", "timer"} : WithinStep(t)
  \/ \E e \in WithinErrors : Within(e)
  \/ \E x \in {Val(0), Err("TimerError")} : TimerFire(x)
  \/ SetInterruptHandler
  \/ \E x \in {Val(1), Err(ErrNames[1])} : Complete(1, x)
  \/ ExecRun

SpecWithin == InitWithin /\ [][NextWithin]_vars

\* reduce and unorderedReduce over inputs that all complete with a value,
\* each on its own thread, in any order, before, while or after the
\* callbacks are installed.
InitReduce ==
  /\ cores = [c \in Cores |-> FreshCore]
  /\ de = [alloc |-> FALSE, state |-> "EMPTY", func |-> 0, executor |-> "none",
           baton |-> 0, freed |-> 0]
  /\ stk = [t \in Threads |-> <<>>]
  /\ queue = <<>>
  /\ sf = [kind |-> "reduce", core |-> 1, n |-> 0, nested |-> FALSE, tw |-> 0,
           nb |-> 0, via |-> "none", detached |-> FALSE]
  /\ prom = [root |-> [alive |-> TRUE, n |-> 0, max |-> 1],
             q |-> [alive |-> TRUE, n |-> 0, max |-> 1]]
  /\ posted = {}
  /\ obs = ObsInit
  /\ agg = AggInit

ReduceStep(t) ==
  \/ SetResultCas(t)
  \/ SetCallbackCas(t)
  \/ RunCallback(t)
  \/ MapSetCallback(t)
  \/ AggGate(t)
  \/ AggChain(t)
  \/ AggApply(t)
  \/ AggFinal(t)
  \/ AggStage(t)
  \/ AggRelease(t)

NextReduce ==
  \/ \E t \in InThreads \cup {"cons"} : ReduceStep(t)
  \/ \E op \in {"reduce", "unorderedReduce"} : \E z \in {0, 5} : Reduce(op, z)
  \/ \E z \in {0, 5} : ReduceEmpty(z)
  \/ \E i \in Inputs : Complete(i, Val(i))

SpecReduce == InitReduce /\ [][NextReduce]_vars

\* unorderedReduce over inputs that complete with a value or with an error
UnorderedStep(t) ==
  \/ SetResultCas(t)
  \/ SetCallbackCas(t)
  \/ RunCallback(t)
  \/ MapSetCallback(t)
  \/ AggGate(t)
  \/ AggChain(t)
  \/ AggApply(t)
  \/ AggFinal(t)
  \/ AggRelease(t)

NextUnordered ==
  \/ \E t \in InThreads \cup {"cons"} : UnorderedStep(t)
  \/ \E z \in {0, 5} : Reduce("unorderedReduce", z)
  \/ \E i \in Inputs : \E x \in {Val(i), Err(ErrNames[i])} : Complete(i, x)

SpecUnordered == InitReduce /\ [][NextUnordered]_vars

\* window over a collection of 1 to MaxItems elements with a width of 1 to
\* MaxItems, on an executor with several threads, the Futures func returns
\* completing at any time.
InitWindow ==
  /\ cores = [c \in Cores |-> FreshCore]
  /\ de = [alloc |-> FALSE, state |-> "EMPTY", func |-> 0, executor |-> "none",
           baton |-> 0, freed |-> 0]
  /\ stk = [t \in Threads |-> <<>>]
  /\ queue = <<>>
  /\ sf = [kind |-> "window", core |-> 1, n |-> 0, nested |-> FALSE, tw |-> 0,
           nb |-> 0, via |-> "none", detached |-> FALSE]
  /\ prom = [root |-> [alive |-> TRUE, n |-> 0, max |-> 1],
             q |-> [alive |-> TRUE, n |-> 0, max |-> 1]]
  /\ posted = {}
  /\ obs = ObsInit
  /\ agg = AggInit

NextWindow ==
  \/ \E size \in 1 .. MaxItems : \E n \in 1 .. MaxItems : Window(size, n)
  \/ \E t \in PoolThreads : \E k \in 1 .. MaxItems : WinRun(t, k)
  \/ \E t \in PoolThreads : WinSetTry(t) \/ SpawnInc(t) \/ SpawnCall(t)
  \/ \E i \in 1 .. MaxItems : WinComplete(i)

SpecWindow == InitWindow /\ [][NextWindow]_vars

\* window with an executor of two threads that runs the tasks added to it
\* and with functions whose Futures complete
LivePool == {"exec", "in1"}

NextWindowLive ==
  \/ \E size \in 1 .. MaxItems : \E n \in 1 .. MaxItems : Window(size, n)
  \/ \E t \in LivePool : \E k \in 1 .. MaxItems : WinRun(t, k)
  \/ \E t \in LivePool : WinSetTry(t) \/ SpawnInc(t) \/ SpawnCall(t)
  \/ \E i \in 1 .. MaxItems : WinComplete(i)

SpecWindowLive ==
  /\ InitWindow
  /\ [][NextWindowLive]_vars
  /\ WF_vars(\E t \in LivePool : \E k \in 1 .. MaxItems : WinRun(t, k))
  /\ WF_vars(\E t \in LivePool : WinSetTry(t) \/ SpawnInc(t) \/ SpawnCall(t))
  /\ WF_vars(\E i \in 1 .. MaxItems : WinComplete(i))

\* A timed get or wait on the Future or the SemiFuture of the root Promise
\* (the SemiFuture after up to MaxDefer deferred functions), the producer
\* fulfilling or dropping the Promise at any time.
InitGet ==
  /\ cores = [c \in Cores |-> FreshCore]
  /\ de = [alloc |-> FALSE, state |-> "EMPTY", func |-> 0, executor |-> "none",
           baton |-> 0, freed |-> 0]
  /\ stk = [t \in Threads |-> <<>>]
  /\ queue = <<>>
  /\ sf \in {[kind |-> k, core |-> 1, n |-> 0, nested |-> FALSE, tw |-> 0,
              nb |-> 0, via |-> "none", detached |-> FALSE] :
             k \in {"semi", "future"}}
  /\ prom = [root |-> [alive |-> TRUE, n |-> 0, max |-> 1],
             q |-> [alive |-> TRUE, n |-> 0, max |-> 1]]
  /\ posted = {}
  /\ obs = ObsInit
  /\ agg = AggInit

GetStep(t) ==
  \/ SetResultCas(t)
  \/ SetCallbackCas(t)
  \/ RunCallback(t)
  \/ DestroyCallback(t)
  \/ AddLoad(t)
  \/ AddLoop(t)
  \/ AddCas(t)
  \/ AddPost(t)
  \/ DeleteThis(t)
  \/ RunAndDestroy(t)
  \/ DetachLoop(t)
  \/ WaitLoop(t)
  \/ WaitWoken(t)
  \/ WaitTimeout(t)
  \/ WaitRevert(t)
  \/ SfWaitRet(t)
  \/ SfWaitClear(t)
  \/ FwdPost(t)
  \/ WaitImplConvert(t)
  \/ WaitImplDurWoken(t)
  \/ WaitImplDurTimeout(t)
  \/ GetTryDetach(t)
  \/ GetTryClear(t)
  \/ WaitViaDrive(t)
  \/ WaitViaReady(t)
  \/ WaitViaDeadline(t)
  \/ GetCheck(t)

NextGet ==
  \/ \E t \in {"prod", "cons"} : GetStep(t)
  \/ Defer("val")
  \/ \E op \in GetOps : WaitImplDur(op) \/ WaitViaDur(op)
  \/ GetTryDur
  \/ \E x \in {Val(1), Err("UserError")} : Fulfil(x)
  \/ DropPromise

SpecGet == InitGet /\ [][NextGet]_vars

\* A Future chain on the root Promise whose end the consumer interrupts, the
\* producer installing its interrupt handler and fulfilling at any time.
InitRaise ==
  /\ cores = [c \in Cores |-> FreshCore]
  /\ de = [alloc |-> FALSE, state |-> "EMPTY", func |-> 0, executor |-> "none",
           baton |-> 0, freed |-> 0]
  /\ stk = [t \in Threads |-> <<>>]
  /\ queue = <<>>
  /\ sf = [kind |-> "chain", core |-> 1, n |-> 0, nested |-> FALSE, tw |-> 0,
           nb |-> 0, via |-> "none", detached |-> FALSE]
  /\ prom = [root |-> [alive |-> TRUE, n |-> 0, max |-> 1],
             q |-> [alive |-> TRUE, n |-> 0, max |-> 1]]
  /\ posted = {}
  /\ obs = ObsInit
  /\ agg = AggInit

RaiseHandlers == {"then", "thenValue", "thenTry", "thenError", "onError", "onErrorFut"}

NextRaise ==
  \/ \E t \in {"prod", "cons"} : SetResultCas(t) \/ SetCallbackCas(t) \/ RunCallback(t)
  \/ \E h \in RaiseHandlers : sf.n < MaxRaiseChain /\ Then(h)
  \/ Fulfil(Val(1))
  \/ SetInterruptHandler
  \/ \E x \in Interrupts : Raise(x)

SpecRaise == InitRaise /\ [][NextRaise]_vars

\* A SemiFuture with up to MaxDefer deferred functions, sent via a null or a
\* real executor (more than once when the null one was refused), the
\* producer fulfilling at any time.
ViaStep(t) ==
  \/ SetResultCas(t)
  \/ SetCallbackCas(t)
  \/ RunCallback(t)
  \/ AddLoad(t)
  \/ AddLoop(t)
  \/ SetExecutorLoop(t)
  \/ RunAndDestroy(t)
  \/ SfViaBind(t)

NextVia ==
  \/ \E t \in {"prod", "cons", "exec"} : ViaStep(t)
  \/ Defer("val")
  \/ \E e \in {"null", "E", "Inline"} : Via(e)
  \/ Fulfil(Val(1))
  \/ ExecRun

SpecVia == Init /\ [][NextVia]_vars

\* ---------------------------------------------------------------- properties
\* tasks of the real executor, and callbacks about to run, for Core c
QueueCount(c) == Cardinality({i \in 1 .. Len(queue) : queue[i] = c})
RunningCount(c) ==
  Cardinality({t \in Threads : At(t, "runcb", "run") /\ Top(t).c = c})
Pending(c) == QueueCount(c) + RunningCount(c)

\* nothing is running, nothing is queued, and no undefined behaviour happened
Quiescent ==
  /\ \A t \in Threads : Idle(t)
  /\ queue = <<>>
  /\ ~obs.uaf
  /\ ~obs.assertFail

\* a continuation that takes a value: then(f) with f taking T, thenValue(f)
ValueTaking(cb) == cb.kind = "then" /\ (~cb.isTry \/ cb.fn = "wrapVal")

\* C1: whatever the interleaving of the producer fulfilling a Core and the
\* consumer installing its callback, exactly one of the two writers makes the
\* transition to Done and dispatches (one dispatch once both have written,
\* none before), and the callback is invoked exactly once: each dispatch is
\* a callback that has run, is running or is queued on the executor, never
\* more than one.
C1_CallbackExactlyOnce ==
  \A c \in Cores :
    /\ obs.writers[c] <= 2
    /\ obs.done[c] = (IF obs.writers[c] = 2 THEN 1 ELSE 0)
    /\ obs.cbRuns[c] + Pending(c) = obs.done[c]

\* both orders of the two writers happened: a callback run by the producer's
\* dispatch and one run by the consumer's
C1_Witness ==
  \E x, y \in obs.fnCtx :
    /\ x.th = "prod" /\ y.th = "cons"
    /\ obs.cbRuns[x.c] = 1 /\ obs.cbRuns[y.c] = 1

\* C2: the function stored in the DeferredExecutor is run at most once and
\* the placeholder is freed exactly once: never twice, and never left
\* allocated once its function has arrived and it was detached, dropped or
\* given an executor whose tasks have all run.
C2_RunOnceFreedOnce ==
  /\ obs.radRuns <= 1
  /\ de.freed <= 1
  /\ (Quiescent /\ de.alloc /\ obs.done[1] = 1 /\
      (de.state = "DETACHED" \/ sf.kind = "none" \/ de.executor /= "none"))
       => de.freed = 1

\* C3: a deferred continuation never runs on a thread that fulfils a Promise,
\* unless the SemiFuture was turned into a Future with toUnsafeFuture().
C3_NeverOnProducerThread ==
  \A x \in obs.fnCtx : x.th \in {"prod", "prodQ"} => sf.via = "Inline"

\* C4: whatever the order of add(func) and setExecutor(e) on a
\* DeferredExecutor, once both have happened the runAndDestroy task has been
\* handed to the executor exactly once, never twice, and the stored function
\* runs only inside that task, on the executor.
C4_EnqueuedExactlyOnce ==
  /\ obs.enq <= 1
  /\ (de.executor /= "none" /\ sf.kind = "future" /\ obs.stored) => obs.enq = 1
  /\ de.executor /= "none" =>
       /\ obs.radRuns + QueueCount(0)
            + Cardinality({t \in Threads : At(t, "runAndDestroy", "run")}) = obs.enq
       /\ \A x \in obs.fnCtx : x.c = 1 => "runAndDestroy" \in x.ops
  /\ de.executor = "E" =>
       /\ \A r \in obs.radBy : r.th = "exec"
       /\ \A x \in obs.fnCtx : x.c = 1 => x.th = "exec"

\* the function was stored, the executor E attached, and the function ran in
\* the task enqueued on E
C4_Witness ==
  /\ de.executor = "E"
  /\ obs.enq = 1
  /\ obs.radRuns = 1
  /\ \E x \in obs.fnCtx : x.c = 1 /\ x.th = "exec"

\* C5: when SemiFuture::wait() returns, the future is ready.
C5_WaitReturnsReady ==
  \A w \in obs.waitRet : w.op \in {"sfWait", "waitImpl"} => w.ready

\* C6: DeferredExecutor::wait(duration) returns false only after its own
\* HAS_BATON -> EMPTY compare-exchange, and true only in HAS_FUNCTION; a
\* function that add() stored stays stored in HAS_FUNCTION until it is run or
\* dropped by the consumer, and it is never run twice.
C6_TimedWaitKeepsFunction ==
  /\ obs.reverts =
       Cardinality({w \in obs.waitRet : w.op = "sfWaitDur" /\ w.ret = "false"})
         + (IF At("cons", "sfWaitDur", "ret") /\ Top("cons").st = "false"
              THEN 1 ELSE 0)
  /\ (At("cons", "sfWaitDur", "ret") /\ Top("cons").st = "true")
       => de.state = "HAS_FUNCTION" /\ obs.stored /\ de.func /= 0
  /\ (obs.stored /\ sf.kind = "semi" /\ Idle("cons") /\ de.freed = 0)
       => de.state = "HAS_FUNCTION" /\ de.func /= 0
  /\ obs.radRuns <= 1
  /\ \A c \in Cores : obs.cbRuns[c] <= 1

\* a timed wait returned false, and the function that arrived afterwards (or
\* raced with the timeout) is stored in the placeholder, not yet run
C6_Witness ==
  /\ \E w \in obs.waitRet : w.op = "sfWaitDur" /\ w.ret = "false"
  /\ obs.reverts = 1
  /\ obs.stored
  /\ de.state = "HAS_FUNCTION"
  /\ obs.radRuns = 0
  /\ Idle("cons")

\* C7: once a SemiFuture that owns a DeferredExecutor is dropped, the
\* function stored in the placeholder is never run and the placeholder is
\* freed exactly once: not twice, and not left allocated once the function
\* has arrived.
C7_DropDiscards ==
  sf.detached =>
    /\ obs.radRuns = 0
    /\ obs.fnRuns[1] = 0
    /\ de.freed <= 1
    /\ (Quiescent /\ obs.done[1] = 1) => de.freed = 1

\* C8: a second fulfilment of a Promise fails with PromiseAlreadySatisfied
\* and leaves the first result in the Core; only the root Promise, which the
\* producer fulfils more than once, ever throws.
C8_SecondFulfilmentRejected ==
  /\ obs.first /= NoTry => cores[1].result = obs.first
  /\ prom.root.n >= 2 => <<"prod", "PromiseAlreadySatisfied">> \in obs.thrown
  /\ prom.root.n <= 1 => obs.thrown = {}
  /\ \A x \in obs.thrown : x[1] = "prod"
  /\ obs.writers[1] <= 2

\* the producer fulfilled the root Promise twice, with different results
C8_Witness ==
  /\ prom.root.n = 2
  /\ obs.first = Err("UserError")
  /\ <<"prod", "PromiseAlreadySatisfied">> \in obs.thrown
  /\ hasResult(1)

\* C9: a Promise destroyed unfulfilled fulfils its Core with BrokenPromise,
\* which is dispatched like any result; and a continuation destroyed without
\* having been invoked leaves BrokenPromise in its downstream Core.
C9_BrokenPromise ==
  /\ ~prom.root.alive => (obs.first /= NoTry /\ cores[1].result = obs.first)
  /\ (obs.first = Err("BrokenPromise") /\ Idle("prod") /\ obs.writers[1] = 2)
       => obs.done[1] = 1
  /\ \A c \in obs.cbDestroyed :
       (obs.cbRuns[c] = 0 /\ cores[c].cb.kind \in {"then", "fwd"})
         => cores[cores[c].cb.to].result = Err("BrokenPromise")

\* the root Promise was destroyed unfulfilled, its BrokenPromise was
\* dispatched to the deferred continuation, and that continuation was
\* destroyed uninvoked, completing its downstream Core
C9_Witness ==
  /\ obs.first = Err("BrokenPromise")
  /\ obs.done[1] = 1
  /\ 1 \in obs.cbDestroyed
  /\ obs.cbRuns[1] = 0
  /\ hasResult(2)
  /\ cores[2].result = Err("BrokenPromise")

\* C10: in a then chain, a continuation that takes a value and whose input
\* is an error is not invoked and forwards the same error; an error-aware
\* handler (thenTry, onError for that error) is invoked with it.
C10_ErrorsBypassValueContinuations ==
  \A k \in 1 .. MaxThen :
    LET cb == cores[k].cb
        r == cores[k].result
    IN (obs.cbRuns[k] = 1 /\ r.k = "err") =>
         /\ ValueTaking(cb) => (obs.fnRuns[k] = 0 /\ cores[k + 1].result = r)
         /\ cb.fn = "try" => (obs.fnRuns[k] = 1 /\ obs.fnIn[k] = r)
         /\ (cb.fn = "onErr" /\ r.e = "UserError")
              => (obs.fnRuns[k] = 1 /\ obs.fnIn[k] = r)
         /\ (cb.fn = "onErr" /\ r.e /= "UserError")
              => (obs.fnRuns[k] = 0 /\ cores[k + 1].result = r)

\* an error passed two value-taking continuations uninvoked and reached a
\* thenTry
C10_Witness ==
  /\ cores[1].result.k = "err"
  /\ ValueTaking(cores[1].cb) /\ ValueTaking(cores[2].cb)
  /\ obs.cbRuns[1] = 1 /\ obs.cbRuns[2] = 1
  /\ obs.fnRuns[1] = 0 /\ obs.fnRuns[2] = 0
  /\ cores[3].cb.fn = "try"
  /\ obs.fnRuns[3] = 1
  /\ obs.fnIn[3] = cores[1].result

\* C11: in a chain A.then(f).then(g), whenever g's callback has started, f's
\* callback has run to completion and g's input is the result f wrote into
\* the intermediate Core: never an unwritten Try, and for a value-taking f
\* on a value exactly f's output.
C11_ChainOrder ==
  \A k \in 1 .. MaxThen :
    obs.cbRuns[k + 1] >= 1 =>
      /\ obs.cbRuns[k] = 1
      /\ obs.cbIn[k + 1].k /= "none"
      /\ obs.cbIn[k + 1] = cores[k + 1].result
      /\ hasResult(k + 1)
      /\ (cores[k].cb.fn \in {"val", "wrapVal"} /\ obs.cbIn[k].k = "val")
           => obs.cbIn[k + 1] = Val(obs.cbIn[k].v + 1)

\* f ran on a value and g then ran on f's output, with g's callback
\* installed before the root Promise was fulfilled
C11_Witness ==
  /\ cores[1].cb.fn = "val"
  /\ obs.cbIn[1] = Val(1)
  /\ obs.cbRuns[2] = 1
  /\ obs.cbIn[2] = Val(2)
  /\ \E x \in obs.fnCtx : x.c = 2 /\ x.th = "prod"

\* ---------------------------------------------------------------- collect*
\* input i has completed and its callback has passed its first step
Gated(i) == \E k \in 1 .. Len(agg.order) : agg.order[k] = i
AllComplete == \A i \in Inputs : cores[i].result /= NoTry
AggQuiet == sf.kind = "aggDone" /\ \A t \in Threads : Idle(t)
Fulfilled == agg.res.k /= "none"
FulfilledOnce == Fulfilled => (agg.sets = 1 /\ agg.anom = {})

\* C12: collectAll fulfils its result only after every input has completed
\* and its callback has run, never with an error of its own, exactly once,
\* with a vector of size n whose slot i is the Try of input i whatever the
\* completion order; once every input has completed and every callback has
\* returned the result is there.
C12_CollectAll ==
  agg.op = "collectAll" =>
    /\ FulfilledOnce
    /\ agg.res.k /= "err"
    /\ Fulfilled =>
         /\ \A i \in Inputs : cores[i].result /= NoTry /\ Gated(i)
         /\ Len(agg.res.vec) = MaxInputs
         /\ \A i \in Inputs : agg.res.vec[i] = Pair(i, cores[i].result)
    /\ (AggQuiet /\ AllComplete) => Fulfilled

C12_Witness ==
  /\ agg.op = "collectAll"
  /\ agg.order = <<2, 1>>
  /\ agg.res.k = "val"
  /\ agg.res.vec[1] = Pair(1, Err("E1"))
  /\ agg.res.vec[2] = Pair(2, Val(2))

\* the position of input i in the order in which the callbacks took their
\* first step, and the inputs in error among them
Pos(i) == CHOOSE k \in 1 .. Len(agg.order) : agg.order[k] = i
ErrGated == {i \in Inputs : Gated(i) /\ cores[i].result.k = "err"}
AllIdle == \A t \in Threads : Idle(t)

\* C13 (as the code has it): collect fulfils its result exactly once; an
\* error result is the error of the input in error whose callback is the
\* first of the callbacks of inputs in error to run, and it is there as soon
\* as that callback has returned; a value result comes only when no input is
\* in error and after the last input has completed, and is the vector of all
\* n values in input order.
C13_Collect ==
  agg.op = "collect" =>
    /\ FulfilledOnce
    /\ agg.res.k = "err" =>
         \E w \in ErrGated :
           /\ agg.res = AggErr(cores[w].result.e)
           /\ \A i \in ErrGated : Pos(w) <= Pos(i)
    /\ agg.res.k = "val" =>
         /\ \A i \in Inputs : cores[i].result.k = "val" /\ Gated(i)
         /\ Len(agg.res.vec) = MaxInputs
         /\ \A i \in Inputs : agg.res.vec[i] = Pair(i, cores[i].result)
    /\ (AllIdle /\ ErrGated /= {}) => agg.res.k = "err"
    /\ (AggQuiet /\ AllComplete) => Fulfilled

C13_Witness ==
  /\ agg.op = "collect"
  /\ agg.order = <<2, 1>>
  /\ cores[1].result = Err("E1")
  /\ agg.res = AggErr("E2")
  /\ AggQuiet

\* C13 (as stated): the error collect completes with is the error of the
\* input that is first, in completion order, to complete with an error: no
\* other input in error had completed before that input began to complete.
C13_FirstErrorByCompletion ==
  (agg.op = "collect" /\ agg.res.k = "err") =>
    \A w \in Inputs :
      cores[w].result = Err(agg.res.e) =>
        ~ \E i \in agg.before[w] : cores[i].result.k = "err"

\* C14 (as the code has it): collectAny fulfils its result exactly once,
\* never with an error of its own, with the pair (index, Try) of the input
\* whose callback is the first to run, value or error alike; the result is
\* there as soon as that callback has returned, and the callbacks of the
\* other inputs leave it as it is.
C14_CollectAny ==
  agg.op = "collectAny" =>
    /\ FulfilledOnce
    /\ agg.res.k /= "err"
    /\ Fulfilled =>
         /\ agg.order /= <<>>
         /\ agg.res.vec = <<Pair(Head(agg.order), cores[Head(agg.order)].result)>>
    /\ (AllIdle /\ agg.order /= <<>>) => Fulfilled

C14_Witness ==
  /\ agg.op = "collectAny"
  /\ agg.order = <<2, 1>>
  /\ agg.res = AggVal(<<Pair(2, Err("E2"))>>)
  /\ cores[1].result = Val(1)
  /\ AggQuiet

\* C14 (as stated): the pair collectAny completes with is that of the input
\* that completes first: no other input had completed before that input
\* began to complete.
C14_FirstByCompletion ==
  (agg.op = "collectAny" /\ Fulfilled) =>
    agg.before[agg.res.vec[1].i] = {}

\* the inputs with a value whose callback has taken its first step
ValGated == {i \in Inputs : Gated(i) /\ cores[i].result.k = "val"}

\* C15 (as the code has it): collectAnyWithoutException fulfils its result
\* exactly once.  A value result is (index, value) of the input with a value
\* whose callback is the first of those to run, and it is there as soon as
\* that callback has returned.  An error result comes only when all n inputs
\* have completed with errors, and is the error of the input whose callback
\* is the last to count itself.
C15_CollectAnyWithoutException ==
  agg.op = "collectAnyWithoutException" =>
    /\ FulfilledOnce
    /\ agg.res.k = "val" =>
         \E w \in ValGated :
           /\ agg.res.vec = <<Pair(w, cores[w].result)>>
           /\ \A i \in ValGated : Pos(w) <= Pos(i)
    /\ agg.res.k = "err" =>
         /\ \A i \in Inputs : cores[i].result.k = "err"
         /\ Len(agg.counted) = MaxInputs
         /\ agg.res.e = cores[agg.counted[MaxInputs]].result.e
    /\ (AllIdle /\ ValGated /= {}) => agg.res.k = "val"
    /\ (AggQuiet /\ AllComplete) => Fulfilled

C15_Witness ==
  /\ agg.op = "collectAnyWithoutException"
  /\ agg.counted = <<2, 1>>
  /\ agg.res = AggErr("E1")
  /\ AggQuiet

\* C15 (as stated): a value result is that of the first input to complete
\* successfully, and an error result is the error of the last input to
\* complete: no input with a value had completed before the winner began to
\* complete, and no input began to complete after the input whose error is
\* reported had completed.
C15_ByCompletion ==
  agg.op = "collectAnyWithoutException" =>
    /\ agg.res.k = "val" =>
         ~ \E i \in agg.before[agg.res.vec[1].i] : cores[i].result.k = "val"
    /\ agg.res.k = "err" =>
         \A w \in Inputs :
           cores[w].result = Err(agg.res.e) =>
             ~ \E j \in Inputs : w \in agg.before[j]

\* the indices a result vector names
IndicesOf(vec) == {vec[k].i : k \in 1 .. Len(vec)}

\* C16: collectN(futures, n) with 1 <= n <= size fulfils its result exactly
\* once, never with an error, and not before n callbacks have stored their
\* Try; the result has exactly n pairs, with pairwise distinct indices among
\* the inputs' indices, which are the indices of the first n inputs to pass
\* the completed gate, each paired with that input's own Try; it is there
\* once n callbacks have passed the gate and returned.
C16_CollectN ==
  agg.op = "collectN" =>
    /\ FulfilledOnce
    /\ agg.res.k /= "err"
    /\ Fulfilled =>
         /\ agg.stored >= agg.n
         /\ Len(agg.order) >= agg.n
         /\ Len(agg.res.vec) = agg.n
         /\ IndicesOf(agg.res.vec) \subseteq Inputs
         /\ Cardinality(IndicesOf(agg.res.vec)) = agg.n
         /\ IndicesOf(agg.res.vec) = {agg.order[k] : k \in 1 .. agg.n}
         /\ \A k \in 1 .. agg.n :
              agg.res.vec[k].t = cores[agg.res.vec[k].i].result
    /\ (AllIdle /\ Len(agg.order) >= agg.n) => Fulfilled

C16_Witness ==
  /\ agg.op = "collectN"
  /\ agg.n = 1
  /\ agg.order = <<2, 1>>
  /\ agg.res = AggVal(<<Pair(2, Err("E2"))>>)
  /\ AggQuiet

\* ---------------------------------------------------------------- within
\* the first of the two callbacks to exchange the token: 1 the source's,
\* 0 the timer's
SourceWon == agg.order /= <<>> /\ Head(agg.order) = 1
TimerWon == agg.order /= <<>> /\ Head(agg.order) = 0

C18_TokenInvariant ==
  agg.op = "within" =>
    /\ agg.sets <= 1
    /\ "PromiseAlreadySatisfied" \notin agg.anom
    /\ agg.sets = 1 => (Fulfilled /\ agg.flag /\ agg.order /= <<>>)
    /\ (AllIdle /\ Len(agg.order) = 2) => agg.sets = 1

C18_Witness ==
  /\ agg.op = "within"
  /\ agg.order = <<1, 0>>
  /\ agg.timer = "fired"
  /\ agg.raised
  /\ agg.sets = 1
  /\ agg.res = TryRes(Val(1))
  /\ AllIdle

\* ---------------------------------------------------------------- reduce
\* C19: for inputs that all succeed and a commutative and associative
\* reducer, unorderedReduce completes, exactly once and after the last input
\* has completed, with the value reduce completes with for the same inputs
\* and initial value, func folded over the inputs in index order, whatever
\* the order in which the inputs complete and their callbacks chain.
C19_UnorderedReduceAsReduce ==
  agg.op \in {"reduce", "unorderedReduce"} =>
    /\ FulfilledOnce
    /\ Fulfilled =>
         /\ AllComplete
         /\ agg.res = TryRes(Val(FoldLeft(agg.n, 1)))
    /\ (AggQuiet /\ AllComplete) => Fulfilled

C19_Witness ==
  /\ agg.op = "unorderedReduce"
  /\ agg.n = 5
  /\ agg.order = <<2, 1>>
  /\ agg.node[2].cb = 1
  /\ agg.res = TryRes(Val(8))
  /\ AggQuiet

\* ---------------------------------------------------------------- window
\* the calls to func in flight: started, their Future not yet completed
InFlight == {i \in 1 .. MaxItems : agg.calls[i] = "running"}

\* the chains that may still start a call: spawns waiting or running, and
\* completions not yet followed by their spawn
Chains ==
  Len(agg.tasks)
    + Cardinality({t \in PoolThreads : stk[t] /= <<>> /\ Top(t).op = "spawn"})

\* C20: window(xs, f, n) never has more than n calls to f in flight, in any
\* schedule of the executor's threads and of the completions: the calls in
\* flight and the chains that may start one are together at most
\* min(n, size), and no call is started twice or beyond the input.
C20_WindowBound ==
  agg.op = "window" =>
    /\ Cardinality(InFlight) <= agg.n
    /\ Cardinality(InFlight) + Chains <= Lanes(agg.n, agg.size)
    /\ \A i \in 1 .. MaxItems : agg.calls[i] /= "none" => i <= agg.size

C20_Witness ==
  /\ agg.op = "window"
  /\ agg.n = 2
  /\ agg.size = 3
  /\ agg.calls[1] = "delivered"
  /\ InFlight = {2, 3}

\* func folded from acc over the values 1 .. n in that order
RECURSIVE FoldTo(_, _, _)
FoldTo(acc, i, n) == IF i > n THEN acc ELSE FoldTo(Op(acc, i), i + 1, n)

Returned22 == agg.op \in GetOps \ {"Future::wait"} /\ agg.res /= AggNone

\* the handle was ready when some wait of the call returned
ReadyAtReturn == \E r \in obs.waitRet : r.ready

\* C22: get(dur), getVia(e, dur), getTryVia(e, dur) and SemiFuture::get(dur)
\* raise FutureTimeout exactly when the handle is not ready at the check that
\* follows the timed wait; a handle that is ready (in particular one that
\* was ready when the wait returned) gives its own result, the value or the
\* error, never FutureTimeout; on a Future that result is the one the
\* producer stored.
C22_TimedGet ==
  Returned22 =>
    /\ agg.sets = 1
    /\ (agg.res = AggErr("FutureTimeout")) <=> ~agg.flag
    /\ ReadyAtReturn => agg.flag
    /\ agg.flag =>
         /\ hasResult(sf.core)
         /\ agg.res = TryRes(cores[sf.core].result)
         /\ OnFuture(agg.op) => cores[sf.core].result = obs.first

\* the wait timed out, the producer's result was stored before the check,
\* and the call returned it
C22_Witness ==
  /\ Returned22
  /\ agg.op = "Future::get"
  /\ [op |-> "waitImplDur", ret |-> "false", ready |-> FALSE, n |-> 0, b |-> 1]
       \in obs.waitRet
  /\ agg.res = TryRes(Val(1))

\* a timed Future::wait has expired: try_wait_for returned false
Expired23 ==
  /\ agg.op = "Future::wait"
  /\ \E r \in obs.waitRet : r.op = "waitImplDur" /\ r.ret = "false"

\* C23: a timed Future::wait(dur) that expires neither cancels nor detaches
\* the chain: the forwarding callback stays installed on the source (it is
\* never destroyed unrun), the handle is not ready until the producer stores
\* a result, and once the producer has done so and its thread has finished,
\* the same handle is ready with exactly the producer's result.
C23_ExpiredWaitKeepsChain ==
  Expired23 =>
    /\ sf.kind = "future" /\ sf.core = 2
    /\ cores[1].cb = FwdPostCb(1)
    /\ obs.cbDestroyed = {}
    /\ obs.first = NoTry => ~hasResult(sf.core)
    /\ hasResult(sf.core) => cores[sf.core].result = obs.first
    /\ (obs.first /= NoTry /\ Idle("prod")) =>
         /\ hasResult(sf.core)
         /\ obs.cbRuns[1] = 1
         /\ 1 \in posted

\* the wait expired with the producer yet to act, and the handle has since
\* become ready with the producer's value
C23_Witness ==
  /\ Expired23
  /\ \A r \in obs.waitRet : ~r.ready
  /\ obs.done[1] = 1 /\ obs.route[1] = "Inline"
  /\ hasResult(sf.core)
  /\ cores[sf.core].result = Val(1)
  /\ Idle("prod")

\* ---------------------------------------------------------------- interrupts
\* the consumer has raised on the end of a chain of at least one step, built
\* after the producer installed its handler
RaisedAtEnd == obs.raised /= "" /\ sf.n >= 1 /\ obs.installAt = 0

\* C24: raise(err) on the Future at the end of a chain built with then,
\* thenValue, thenTry, thenError or onError reaches the root Promise: the
\* interrupt handler installed on it has been invoked with err, once.
C24_RaiseReachesRoot == RaisedAtEnd => obs.handled = <<obs.raised>>

\* C25 (Core's interrupt machinery as the specification describes it): for
\* an interrupt raised on the Future of the root Promise itself, the handler
\* has received nothing while it is not installed and the interrupt is then
\* remembered in the Core; once both the raise and the installation have
\* happened, in either order, the handler has received exactly that
\* interrupt, exactly once.
C25_InterruptOnce ==
  obs.raisedOn = 1 =>
    /\ Len(obs.handled) <= 1
    /\ obs.installAt = -1 =>
         obs.handled = <<>> /\ cores[1].interrupt = obs.raised
    /\ obs.installAt /= -1 => obs.handled = <<obs.raised>>
    /\ cores[1].interrupt = "" <=> cores[1].handler = "H"

\* the interrupt was raised first, remembered, and delivered on installation
C25_Witness ==
  /\ obs.raisedOn = 1
  /\ cores[1].interrupt = "Cancel" /\ cores[1].handler = "none"
  /\ obs.installAt /= -1
  /\ obs.handled = <<"Cancel">>

\* ---------------------------------------------------------------- via
\* this step is a via() that fails with NoExecutor
NoExecutorStep == <<"cons", "NoExecutor">> \in obs'.thrown \ obs.thrown

\* no executor is ever null: neither the one handed to the DeferredExecutor
\* nor the one bound to a Core, and a SemiFuture that has at most been
\* refused is still a SemiFuture whose placeholder has no executor
NoNullExecutor ==
  /\ de.executor /= "null"
  /\ \A c \in Cores : cores[c].exec /= "null"
  /\ sf.via /= "null"
  /\ (sf.via = "none") => (sf.kind = "semi" /\ de.executor = "none")

\* C26: SemiFuture::via with a null executor fails with NoExecutor, and the
\* step in which it fails changes nothing: the SemiFuture keeps its Core and
\* is still a SemiFuture, the DeferredExecutor keeps its state, its function
\* and its (absent) executor, no Core changes and nothing is queued or run;
\* a null executor is never handed to the placeholder or bound to a Core.
C26_ViaNull ==
  /\ []NoNullExecutor
  /\ [][NoExecutorStep =>
          /\ sf' = sf /\ de' = de /\ cores' = cores
          /\ stk' = stk /\ queue' = queue]_vars

\* via(nullptr) was refused on a SemiFuture whose DeferredExecutor already
\* holds the deferred function; a later via(E) ran it on E
C26_Witness ==
  /\ <<"cons", "NoExecutor">> \in obs.thrown
  /\ sf.n = 1 /\ sf.via = "E"
  /\ obs.fnCtx /= {}
  /\ \A x \in obs.fnCtx : x.th = "exec"

\* ---------------------------------------------------------------- dispatch
\* thread t completes Core c in this step: its CAS takes the state word to Done
Completes(t, c) ==
  /\ stk[t] /= <<>>
  /\ Top(t).op \in {"setResult", "setCallback"}
  /\ Top(t).c = c
  /\ cores[c].state /= "Done"
  /\ cores'[c].state = "Done"

\* the frame on top of t's stack after the step
TopAfter(t) == stk'[t][Len(stk'[t])]

\* C27: in the step that completes a Core, the continuation goes where the
\* Core's executor says: with a real executor bound it is appended to that
\* executor's queue and the completing thread runs nothing; with the
\* DeferredExecutor placeholder bound the completing thread enters the
\* placeholder's add() with it and nothing is queued; with no executor (or
\* the inline executor) the completing thread runs it itself, at once.
C27_DispatchRoute ==
  [][\A t \in Threads : \A c \in Cores :
       Completes(t, c) =>
         CASE cores[c].exec = "E" ->
                /\ queue' = Append(queue, c)
                /\ stk'[t] = PopS(stk[t])
           [] cores[c].exec = "DE" ->
                /\ queue' = queue
                /\ Len(stk'[t]) = Len(stk[t])
                /\ TopAfter(t).op = "add" /\ TopAfter(t).c = c
           [] OTHER ->
                /\ queue' = queue
                /\ Len(stk'[t]) = Len(stk[t])
                /\ TopAfter(t).op = "runcb" /\ TopAfter(t).c = c]_vars

\* the producer completed Core 1, which is bound to the executor E: its
\* continuation waits in E's queue and the producer's thread is done
C27_Witness ==
  /\ obs.route[1] = "E"
  /\ queue = <<1>>
  /\ Idle("prod")
  /\ obs.cbRuns[1] = 0

\* ---------------------------------------------------------------- State
\* the changes of state_ the DeferredExecutor may make
LegalChanges ==
  {<<"EMPTY", "HAS_FUNCTION">>, <<"EMPTY", "HAS_EXECUTOR">>,
   <<"EMPTY", "HAS_BATON">>, <<"EMPTY", "DETACHED">>,
   <<"HAS_EXECUTOR", "HAS_FUNCTION">>, <<"HAS_BATON", "HAS_FUNCTION">>,
   <<"HAS_BATON", "EMPTY">>}

\* C28: every change of the DeferredExecutor's state is one of EMPTY ->
\* HAS_FUNCTION, EMPTY -> HAS_EXECUTOR, EMPTY -> HAS_BATON, EMPTY -> DETACHED,
\* HAS_EXECUTOR -> HAS_FUNCTION, HAS_BATON -> HAS_FUNCTION and HAS_BATON ->
\* EMPTY; in particular HAS_FUNCTION and DETACHED are never changed again,
\* and the placeholder is destroyed only in one of those two states.
C28_StateChanges ==
  /\ [](de.freed > 0 => de.state \in {"HAS_FUNCTION", "DETACHED"})
  /\ [][de'.state /= de.state => <<de.state, de'.state>> \in LegalChanges]_vars
  /\ [][de'.freed /= de.freed => de'.state = de.state]_vars

\* a timed wait went EMPTY -> HAS_BATON -> EMPTY, a second wait took the
\* placeholder to HAS_BATON again and the function's arrival to HAS_FUNCTION,
\* in which it was destroyed
C28_Witness ==
  /\ obs.reverts = 1
  /\ sf.nb = 2
  /\ de.state = "HAS_FUNCTION"
  /\ de.freed = 1
  /\ 2 \in posted

\* ---------------------------------------------------------------- wait()
\* SemiFuture::wait() on a DeferredExecutor has returned
Waited == \E w \in obs.waitRet : w.op = "sfWait"

\* C29: for a SemiFuture with a DeferredExecutor whose deferred functions
\* return values, a blocked wait() is woken once the function has arrived
\* (it is never left with its baton unposted, the placeholder out of
\* HAS_BATON and every other thread finished); when wait() has returned, runAndDestroy has run
\* exactly once, on the waiting thread, the deferred functions ran there and
\* not on the producer's thread, and the Core's executor is cleared.
C29_WaitRunsOnWaiter ==
  (~sf.nested /\ sf.via = "none") =>
    /\ (/\ At("cons", "wait", "block")
        /\ Top("cons").bt \notin posted
        /\ \A t \in Threads \ {"cons"} : Idle(t))
         => de.state = "HAS_BATON"
    /\ Waited =>
         /\ obs.radRuns = 1
         /\ \A r \in obs.radBy : r.th = "cons"
         /\ obs.fnRuns[1] = 1
         /\ \A x \in obs.fnCtx : x.th = "cons"
    /\ (Waited /\ Idle("cons")) => cores[sf.core].exec = "none"

\* ---------------------------------------------------------------- re-entrant add
\* thread t is inside an add() that was called from within the placeholder:
\* under runAndDestroy's func_(), or under the destruction of the stored
\* function by detach() or by an outer add()
Reentrant(t) ==
  /\ stk[t] /= <<>>
  /\ Top(t).op = "add"
  /\ \E i \in 1 .. Len(stk[t]) - 1 :
       stk[t][i].op \in {"runAndDestroy", "detach", "add"}

\* C30: a function added re-entrantly to a DeferredExecutor is run inline by
\* add(): the re-entrant add never gets past its first test (it does not
\* store the function, enter the loop or reach `delete this`), and the
\* placeholder is never freed a second time.
C30_ReentrantAddInline ==
  /\ \A t \in Threads : Reentrant(t) => Top(t).pc = "load"
  /\ de.freed <= 1

\* ---------------------------------------------------------------- within: the raise
\* the timer's callback is past its raise
TimerPastRaise ==
  \/ agg.timer \in {"fired", "failed"} /\ Idle("timer") /\ agg.raised
  \/ stk["timer"] /= <<>> /\ Top("timer").pc \in {"token", "set", "unlock"}

TimerDone == agg.timer \in {"fired", "failed"} /\ Idle("timer")

Items == 1 .. agg.size

\* every result Future of the window holds the result of its own call
AllDelivered ==
  \A i \in Items :
    /\ agg.win[i].prom /= NoTry
    /\ agg.win[i].prom = agg.win[i].fut
    /\ agg.win[i].sets = 1

\* C32: window(executor, input, func, n) with n >= 1 adds min(n, size)
\* spawners to the executor; func is called at most once for an element and
\* never beyond the input; result Promise i is set at most once, only after
\* the Future of func(input[i]) has completed and with its Try; and with an
\* executor that runs its tasks and Futures that complete, in the end func
\* has been called exactly once for every element and every result Future
\* holds the result of its own call.
C32_WindowDeliversAll ==
  /\ [](agg.op = "window" =>
         /\ agg.completed = 0 =>
              Chains + Cardinality(InFlight) = Lanes(agg.n, agg.size)
         /\ \A i \in 1 .. MaxItems :
              /\ agg.win[i].calls <= 1
              /\ agg.win[i].calls = 1 => i \in Items
              /\ agg.win[i].sets <= 1
              /\ agg.win[i].sets = 1 =>
                   /\ agg.win[i].calls = 1
                   /\ agg.win[i].fut /= NoTry
                   /\ agg.win[i].prom = agg.win[i].fut
              /\ (agg.win[i].fut /= NoTry /\ agg.win[i].fut.k = "val") =>
                   agg.win[i].fut = Val(i)
         /\ "PromiseAlreadySatisfied" \notin agg.anom)
  /\ (agg.op = "window") ~>
       (AllDelivered /\ \A i \in Items : agg.win[i].calls = 1)

C32_Witness ==
  /\ agg.op = "window"
  /\ agg.n = 2
  /\ agg.size = 3
  /\ AllDelivered
  /\ agg.win[1].prom = Err("UserError")
  /\ agg.win[3].prom = Val(3)
  /\ \A t \in PoolThreads : Idle(t)

\* ---------------------------------------------------------------- unorderedReduce
\* the inputs in error among the first k callbacks, and the first of them
ErrAt(k) == {j \in 1 .. k : cores[agg.order[j]].result.k = "err"}
FirstErr(k) == CHOOSE j \in ErrAt(k) : \A l \in ErrAt(k) : j <= l

\* the values of the first k inputs in the order of the callbacks, folded
RECURSIVE SumTo(_)
SumTo(k) ==
  IF k = 0 THEN agg.n ELSE Op(SumTo(k - 1), cores[agg.order[k]].result.v)

\* what the Promise of the k-th callback is to hold
ExpectedTry(k) ==
  IF ErrAt(k) = {} THEN Val(SumTo(k))
  ELSE Err(cores[agg.order[FirstErr(k)]].result.e)

\* the callbacks that come before the first input in error
GoodPrefix ==
  IF ErrAt(Len(agg.order)) = {} THEN agg.order
  ELSE SubSeq(agg.order, 1, FirstErr(Len(agg.order)) - 1)

IsPrefix(s, t) == Len(s) <= Len(t) /\ s = SubSeq(t, 1, Len(s))

Chained == obs.fnRuns[1] = 1 /\ cores[QC].cb = FwdCb(2)

\* C34: when the function given to then returns a nested Future or
\* SemiFuture g, the downstream Promise p (Core 2) is fulfilled once, with
\* g's result and not before g has one, and it is fulfilled once g has
\* completed and everything has run; a function that throws gives p the
\* error it threw; a nested SemiFuture is bound to the executor of p's
\* Core, or to the inline executor if p's Core has none, when its callback
\* is installed, and a nested Future keeps its own.
C34_NestedForward ==
  /\ obs.thrown = {}
  /\ obs.fnRuns[1] <= 1
  /\ obs.cbRuns[QC] <= 1
  /\ cores[QC].cb /= NoCb => Chained
  /\ Chained =>
       /\ cores[1].cb.fn \in {"fut", "semi"}
       /\ cores[1].cb.fn = "semi" =>
            cores[QC].exec = (IF cores[2].exec = "none" THEN "Inline"
                              ELSE cores[2].exec)
       /\ cores[1].cb.fn = "fut" => cores[QC].exec = "none"
       /\ cores[2].result /= NoTry =>
            /\ hasResult(QC)
            /\ obs.cbRuns[QC] = 1
            /\ cores[2].result = cores[QC].result
       /\ (hasResult(QC) /\ Quiescent) =>
            (hasResult(2) /\ cores[2].result = cores[QC].result)
  /\ (obs.fnRuns[1] = 1 /\ cores[1].cb.fn = "thr" /\ Idle("prod")
      /\ Idle("cons") /\ Idle("exec") /\ queue = <<>>) =>
       (hasResult(2) /\ cores[2].result = Err("UserError"))
  /\ (cores[2].result /= NoTry /\ obs.fnRuns[1] = 0) =>
       (cores[1].result.k = "err" /\ cores[2].result = cores[1].result)

C34_Witness ==
  /\ Chained
  /\ cores[1].cb.fn = "semi"
  /\ cores[2].exec = "none"
  /\ cores[QC].exec = "Inline"
  /\ obs.cbIn[QC] = Err("OtherError")
  /\ cores[2].result = Err("OtherError")
  /\ Quiescent

\* ---------------------------------------------------------------- executors along a chain
\* the Cores of a chain that have a continuation attached
Attached == 1 .. sf.n

\* a thenError step was made since the last via() before continuation k was
\* attached, on a chain that had no executor then
ErrorStepBefore(k) ==
  \E j \in 1 .. k - 1 :
    /\ cores[j].cb.fn = "onErr"
    /\ \A l \in j .. k : obs.viaAt[l] = "none"

\* C35: the Future returned by then / thenValue / thenTry / thenError
\* carries the executor of the Future it was called on (thenError: the
\* inline executor if that Future had none), so the Core a continuation is
\* attached to is bound to the executor given to the most recent via()
\* before it - to none, or to the inline executor after a thenError step,
\* if there was no via() - and the continuation is dispatched to that
\* executor: one bound to E runs on E's thread.
C35_ExecutorCarried ==
  \A k \in Attached :
    /\ obs.viaAt[k] \in {"none", "E", "Inline"}
    /\ obs.viaAt[k] /= "none" => cores[k].exec = obs.viaAt[k]
    /\ obs.viaAt[k] = "none" =>
         cores[k].exec = (IF ErrorStepBefore(k) THEN "Inline" ELSE "none")
    /\ obs.route[k] /= "" => obs.route[k] = cores[k].exec
    /\ \A x \in obs.fnCtx :
         (x.c = k /\ cores[k].exec = "E") => x.th = "exec"
    /\ (k = sf.n /\ sf.via = obs.viaAt[k]) =>
         cores[k + 1].exec =
           (IF cores[k].exec = "none" /\ cores[k].cb.fn = "onErr"
              THEN "Inline" ELSE cores[k].exec)

\* via(E), a step, via(Inline), a step: the first continuation has run on
\* E's thread, the second was dispatched inline
C35_Witness ==
  /\ sf.n = 3
  /\ obs.viaAt[1] = "E"
  /\ obs.viaAt[2] = "Inline"
  /\ obs.viaAt[3] = "Inline"
  /\ cores[3].cb.fn = "onErr"
  /\ obs.route[1] = "E"
  /\ obs.route[2] = "Inline"
  /\ obs.route[3] = "Inline"
  /\ \E x \in obs.fnCtx : x.c = 1 /\ x.th = "exec"
  /\ Quiescent

\* ---------------------------------------------------------------- whileDo, times
\* the calls of predicate and of thunk so far
Calls(what) ==
  Cardinality({j \in 1 .. Len(agg.applied) : agg.applied[j] = what})

\* the thunk calls whose Future is not yet complete
Running == {k \in 1 .. Calls("thunk") : cores[k].result = NoTry}

\* the thunk calls whose Future completed with an error
Failed == {k \in 1 .. Calls("thunk") : cores[k].result.k = "err"}

\* the Future times returned, and whether everything has come to rest
LoopResult == agg.loop[1].v
LoopQuiet == sf.kind = "whileDone" /\ AllIdle /\ Running = {}

\* C36 (as the code has it): whileDo alternates strictly: predicate, then
\* thunk, and the next predicate only after the Future of that thunk call
\* has completed with a value, so no two thunk calls are ever in flight; it
\* completes, once, when predicate first returns false or, with the error,
\* when a thunk's Future completes with one, after which neither predicate
\* nor thunk is called again.  times(n, thunk) calls thunk at most n times,
\* exactly n times if no call fails, and then completes.
C36_WhileDoAlternates ==
  agg.op = "times" =>
    /\ \A j \in 1 .. Len(agg.applied) :
         agg.applied[j] = (IF j % 2 = 1 THEN "predicate" ELSE "thunk")
    /\ Cardinality(Running) <= 1
    /\ \A k \in 1 .. Calls("predicate") - 1 :
         /\ Calls("thunk") >= k
         /\ cores[k].result.k = "val"
    /\ Calls("thunk") <= agg.n
    /\ \A k \in 1 .. MaxTimes + 1 : agg.loop[k].sets <= 1
    /\ LoopResult /= NoTry =>
         /\ Running = {}
         /\ IF Failed = {}
              THEN /\ Calls("thunk") = agg.n
                   /\ Calls("predicate") = agg.n + 1
                   /\ LoopResult = Val(0)
              ELSE /\ Failed = {Calls("thunk")}
                   /\ Calls("predicate") = Calls("thunk")
                   /\ LoopResult = Err("UserError")
    /\ LoopQuiet => LoopResult /= NoTry

\* two calls, the first Future completed later by its producer, the second
\* complete when thunk returned it
C36_Witness ==
  /\ agg.op = "times"
  /\ agg.n = 2
  /\ agg.applied = <<"predicate", "thunk", "predicate", "thunk", "predicate">>
  /\ obs.route[1] /= ""
  /\ obs.fnCtx /= {}
  /\ LoopResult = Val(0)
  /\ LoopQuiet

\* C36 (as stated): times(n, thunk) has called thunk exactly n times when
\* it completes.
C36_TimesCallsExactlyN ==
  (agg.op = "times" /\ LoopResult /= NoTry) => Calls("thunk") = agg.n


\* a thread is inside one of the placeholder's member functions
InPlaceholder(t) ==
  /\ ~Idle(t)
  /\ Top(t).op \in {"add", "detach", "setExecutor", "wait", "waitDur",
                    "runAndDestroy"}

\* C37: no operation (add, setExecutor, wait, detach, runAndDestroy) is ever
\* applied to a DeferredExecutor that has been freed, for any sequence of
\* defer, via, wait, get and drop interleaved with fulfilment, also when a
\* deferred continuation returns a future that is not ready when the
\* placeholder's function finishes: no member function is entered, and none
\* is still executing, on a deleted placeholder.
C37_NoUseAfterFree ==
  /\ ~obs.uaf
  /\ \A t \in Threads : InPlaceholder(t) => de.freed = 0


\* the result Promise of the aggregator has been fulfilled exactly once
SetOnce == agg.sets = 1 /\ Fulfilled /\ agg.anom = {}

\* the fulfilments of two inputs overlapped: neither had returned when the
\* other began
Overlapped == agg.before[1] = {} /\ agg.before[2] = {}

\* C39: each aggregator (collectAll, collect, collectAny,
\* collectAnyWithoutException, collectN) fulfils its result Promise exactly
\* once under every interleaving of the inputs' completions: never twice (no
\* PromiseAlreadySatisfied from inside a callback), and never zero times once
\* all the inputs have completed and their callbacks have been released.
C39_FulfilledExactlyOnce ==
  agg.op \in CollectOps \cup {"collectN"} =>
    /\ agg.sets <= 1
    /\ agg.anom = {}
    /\ agg.sets = 1 <=> Fulfilled
    /\ (AggQuiet /\ AllComplete) => SetOnce

C39_Witness ==
  /\ agg.op = "collectAnyWithoutException"
  /\ AggQuiet
  /\ AllComplete
  /\ Overlapped
  /\ \A i \in Inputs : cores[i].result.k = "err"
  /\ SetOnce


\* SemiFuture::get(dur) on a SemiFuture with a placeholder: its timed wait
\* has returned false
TimedOut40 ==
  /\ agg.op = "SemiFuture::get"
  /\ \E r \in obs.waitRet : r.op = "sfWaitDur" /\ r.ret = "false"

\* C40: SemiFuture::get(dur) / getTry(dur) that times out on a SemiFuture
\* with a DeferredExecutor detaches the placeholder before raising the
\* timeout: the deferred work is then never run, whether the Core dispatches
\* before or after the detach, and the placeholder is freed exactly once.
C40_TimedOutGetDetaches ==
  TimedOut40 =>
    /\ \A c \in Cores : obs.fnRuns[c] = 0
    /\ obs.radRuns = 0
    /\ ~obs.uaf
    /\ de.freed <= 1
    /\ (Quiescent /\ obs.done[1] = 1 /\ sf.kind = "none") => de.freed = 1

====
